---- MODULE Spec2Model ----
(***************************************************************************)
(* A model of mindcli's retrieval stack: the Indexer (index_all with its   *)
(* feeder and worker pool, index_file, remove_file, embed_document) over   *)
(* the Catalog, the full-text index and the vector index, and the hybrid   *)
(* searcher.  Strings that the code formats or parses (document ids, chunk *)
(* keys) are sequences of one-character tokens.                            *)
(***************************************************************************)
EXTENDS Integers, Sequences, FiniteSets, Bags, TLC

VARIABLES
    fs,           \* the files on disk: path -> [exists, mtime, content]
    docs,         \* Catalog table documents: id -> row
    chunks,       \* Catalog table chunks: set of [id, documentID]
    members,      \* Catalog table collection_documents: set of document ids
    fti,          \* the ids held by the full-text index
    vi,           \* the vector index: key -> dimension of the stored vector
    embedEnabled, \* idx.vectors != nil && idx.embedder != nil
    pc,           \* idle, IndexAll at scan, feed, wait or cwait, or returned
    cancelled,    \* ctx.Done() of the running IndexAll
    srcIdx,       \* position of IndexAll's loop over idx.sources
    allFiles,     \* indexSource: the drained scan
    sent,         \* indexSource: files the feeder has sent
    jobs,         \* indexSource: the buffered jobs channel
    jobsClosed,   \* indexSource: close(jobs) done
    wfile,        \* per worker: the job it has received, <<>> when none
    wexit,        \* per worker: wg.Done() called
    processed,    \* indexSource: atomic counter
    indexed,      \* indexSource: atomic counter
    errors,       \* indexSource: atomic counter
    srcStats,     \* indexSource: its stats value
    stats,        \* IndexAll: its stats value
    ret,          \* what the last operation returned, <<>> while it runs
    events,       \* the ProgressReporter calls of the current operation
    calls,        \* the Catalog lookups, Source.Scan and Source.Parse calls of the operation
    before,       \* the stores as the current operation found them, <<>> when idle
    hybrid,       \* HybridSearcher: [vectors, embedder] present, HybridWeight
    catalog,      \* the ids DB.GetDocument resolves for the searcher
    ranking,      \* the full-text index as the searcher sees it: ids, best first
    vecRanking,   \* the vector store as the searcher sees it: chunk keys, closest first
    out,          \* what the last Search returned, <<>> when none
    trace,        \* the backend calls of the last Search
    ecache,       \* CachedEmbedder: table embedding_cache, content hash -> blob
    dimensions,   \* OllamaEmbedder.dimensions
    elog,         \* the calls made on the cached embedder so far, with their outcome
    graph,        \* VectorStore.graph: the nodes [key, vector] of the open store
    disk,         \* the store's file: <<>> when there is none, else <<the saved nodes>>
    vpanic,       \* the process using the store has panicked
    vlive,        \* the keys added to the store and not deleted since
    vout,         \* the keys the last VectorStore.Search returned, <<>> when none
    vop,          \* the last call made on the store, "" when none
    lenient,      \* the graph of this build stores a vector of another length
    clock,        \* Watcher: time.Now(), in ticks
    pending,      \* Watcher.pending: path -> time of its last queued event
    ready,        \* processPending: the paths picked and not yet dispatched
    lastEvent,    \* the time of each path's most recent queued event, -1 when none
    inBurst,      \* the path's most recent event came less than debounceTime after the one before
    dispatched,   \* the last dispatch of processPending, <<>> when none
    pquery,       \* ParseQuery: the query string, a sequence of string pieces
    pparsed,      \* what the last ParseQuery of pquery returned, <<>> when none
    collections,  \* table collections: rows [id, name]
    tags,         \* table document_tags: rows [doc, tag, manual]
    dbret,        \* the last call on these tables, <<>> when none
    frames,       \* generate_answer_stream: the frames of the LLM's response
    unread,       \* the frames not yet read
    sunk,         \* the calls of the sink so far
    gret,         \* what the streaming call returned, "" while it runs
    ctext,        \* chunker.Split: the text, a sequence of characters
    copts,        \* chunker.Split: the options
    cret,         \* what Split returned, <<>> when it has not run
    removeSeen,   \* Watcher: the paths with a Remove event since their last dispatch
    ctxDone,      \* Watcher.Start: the context is cancelled
    wdone,        \* Watcher.done is closed
    subscription, \* Watcher.watcher, the fsnotify subscription: "open" or "closed"
    startPc,      \* where Start is: "select" or "returned"
    loopPc,       \* where debounceLoop is: "select", "processing" or "returned"
    scanTodo,     \* Scanner.Scan: what the walk has still to deliver, "file" or "error"
    filesCh,      \* Scanner.Scan: the channel files
    errsCh,       \* Scanner.Scan: the channel errs
    scanClosed,   \* Scanner.Scan: the goroutine has returned and closed both channels
    scanCtx,      \* the context of the scan is cancelled
    scanPc,       \* indexSource: "files" (range files), "errs" (range scanErrs), "done"
    scanGot,      \* indexSource: the files and the errors received so far
    mu,           \* VectorStore.mu: the RWMutex, its writer and its readers
    vcall         \* the VectorStore method each caller is inside, between lock and unlock

ixVars == <<fs, docs, chunks, members, fti, vi, embedEnabled, pc, cancelled,
            srcIdx, allFiles, sent, jobs, jobsClosed, wfile, wexit, processed,
            indexed, errors, srcStats, stats, ret, events, calls, before>>

searchVars == <<hybrid, catalog, ranking, vecRanking, out, trace>>

embedVars == <<ecache, dimensions, elog>>

vectorVars == <<graph, disk, vpanic, vlive, vout, vop, lenient>>

watchVars == <<clock, pending, ready, lastEvent, inBurst, removeSeen, dispatched>>

parseVars == <<pquery, pparsed>>

dbVars == <<collections, tags, dbret>>

streamVars == <<frames, unread, sunk, gret>>

chunkVars == <<ctext, copts, cret>>

lockVars == <<mu, vcall>>

runVars == <<ctxDone, wdone, subscription, startPc, loopPc>>

scanVars == <<scanTodo, filesCh, errsCh, scanClosed, scanCtx, scanPc, scanGot>>

\* everything but the scan's channels
nonScanVars == <<ixVars, searchVars, embedVars, vectorVars, watchVars, parseVars, dbVars,
                 streamVars, chunkVars, lockVars, runVars>>

\* what the Watcher's goroutines leave alone, the Indexer apart
nonRunVars == <<searchVars, embedVars, vectorVars, parseVars, dbVars, streamVars, chunkVars,
                lockVars, scanVars>>

\* everything but the vector store and its mutex
nonStoreVars == <<ixVars, searchVars, embedVars, watchVars, parseVars, dbVars, streamVars,
                  chunkVars, runVars, scanVars>>

\* what the steps of one component leave alone
nonIndexVars == <<searchVars, embedVars, vectorVars, watchVars, parseVars, dbVars, streamVars, chunkVars, lockVars, runVars, scanVars>>
nonSearchVars == <<ixVars, embedVars, vectorVars, watchVars, parseVars, dbVars, streamVars, chunkVars, lockVars, runVars, scanVars>>
nonEmbedVars == <<ixVars, searchVars, vectorVars, watchVars, parseVars, dbVars, streamVars, chunkVars, lockVars, runVars, scanVars>>
nonVectorVars == <<ixVars, searchVars, embedVars, watchVars, parseVars, dbVars, streamVars, chunkVars, lockVars, runVars, scanVars>>
nonWatchVars == <<searchVars, embedVars, vectorVars, parseVars, dbVars, streamVars, chunkVars, lockVars, runVars, scanVars>>
nonParseVars == <<ixVars, searchVars, embedVars, vectorVars, watchVars, dbVars, streamVars, chunkVars, lockVars, runVars, scanVars>>
nonDbVars == <<ixVars, searchVars, embedVars, vectorVars, watchVars, parseVars, streamVars, chunkVars, lockVars, runVars, scanVars>>
nonStreamVars == <<ixVars, searchVars, embedVars, vectorVars, watchVars, parseVars, dbVars, chunkVars, lockVars, runVars, scanVars>>
nonChunkVars == <<ixVars, searchVars, embedVars, vectorVars, watchVars, parseVars, dbVars, streamVars, lockVars, runVars, scanVars>>

vars == <<ixVars, searchVars, embedVars, vectorVars, watchVars, parseVars, dbVars, streamVars, chunkVars, lockVars, runVars, scanVars>>

(***************************************************************************)
(* Bounds of the model.                                                    *)
(***************************************************************************)
MaxTime == 2          \* modification times are 1..MaxTime (unix seconds)
MaxChunks == 2        \* a file's content chunks into 0..MaxChunks chunks
MaxScanErrors == 1      \* errors one Scan delivers on its error channel
Workers == 1          \* cfg.Indexing.Workers
MaxHits == 3          \* the indexes hold at most MaxHits entries for a query
MaxOps == 2           \* calls made on the cached embedder
MaxBatch == 2         \* texts of one EmbedBatch call
MaxScan == 3          \* files and errors one scan delivers
MaxCallers == 2       \* goroutines that call the vector store at the same time
MaxAdd == 2           \* keys and vectors of one AddBatch call
MaxClock == 4         \* the watcher's clock runs over 0..MaxClock
MaxQuery == 3         \* pieces of a query string
MaxFrames == 3        \* frames of one streamed response
MaxText == 5          \* characters of a text given to the chunker
WeightDen == 2        \* HybridWeight is one of 0/WeightDen .. WeightDen/WeightDen

MarkdownPaths == {"a", "b"}
PdfPaths == {"p"}
Paths == MarkdownPaths \cup PdfPaths
ScanOrder == <<"a", "b", "p">>          \* WalkDir's lexical order
Sources == <<"markdown", "pdf">>        \* idx.sources
SourcePaths(s) == IF s = "markdown" THEN MarkdownPaths ELSE PdfPaths
BackendDims == {2}                      \* vector lengths the backend returns
DigitStr == <<"0", "1", "2", "3", "4", "5", "6", "7", "8", "9">>

WorkerIds == 1..Workers

(***************************************************************************)
(* Sources.                                                                *)
(***************************************************************************)
\* Document ids are a hash of the path.
IdOf(p) == <<"#", p>>

\* fmt.Sprintf("%s:%d", doc.ID, i)
ChunkKey(id, i) == id \o <<":", DigitStr[i + 1]>>

RECURSIVE LastIndex(_, _)
\* strings.LastIndex: the last position of c in s, 0 when absent
LastIndex(s, c) ==
    IF s = <<>> THEN 0
    ELSE IF s[Len(s)] = c THEN Len(s)
    ELSE LastIndex(SubSeq(s, 1, Len(s) - 1), c)

\* extractDocID: the chunk key up to its last colon
extractDocID(chunkKey) ==
    LET idx == LastIndex(chunkKey, ":")
    IN  IF idx # 0 THEN SubSeq(chunkKey, 1, idx - 1) ELSE chunkKey

RECURSIVE FilterSeq(_, _)
FilterSeq(s, keep) ==
    IF s = <<>> THEN <<>>
    ELSE (IF s[1] \in keep THEN <<s[1]>> ELSE <<>>) \o FilterSeq(Tail(s), keep)

\* Scanner.Scan: the FileInfo of every existing file of the source, in walk order
ScanSource(f, s) ==
    LET ps == FilterSeq(ScanOrder, {p \in SourcePaths(s) : f[p].exists})
    IN  [i \in 1..Len(ps) |-> [path |-> ps[i], modifiedAt |-> f[ps[i]].mtime]]

\* Source.Parse: <<>> on a read error, else the document.  The markdown source
\* stamps the scanned modification time, the pdf source stats the file again.
Parse(f, s, file) ==
    IF ~f[file.path].exists THEN <<>>
    ELSE <<[id         |-> IdOf(file.path),
            source     |-> s,
            path       |-> file.path,
            content    |-> f[file.path].content,
            modifiedAt |-> IF s = "markdown" THEN file.modifiedAt
                           ELSE f[file.path].mtime]>>

\* chunker.Split: the number of chunks of a content (contents are named by it)
NumChunks(content) == content

(***************************************************************************)
(* Catalog, full-text index, vector index.                                 *)
(***************************************************************************)
Store == [docs |-> docs, chunks |-> chunks, members |-> members,
          fti |-> fti, vi |-> vi]

UpsertDocument(d, doc) ==
    [i \in DOMAIN d \cup {doc.id} |-> IF i = doc.id THEN doc ELSE d[i]]

\* the row WHERE path = ?, <<>> for ErrNotFound
GetDocumentByPath(d, path) ==
    LET hit == {i \in DOMAIN d : d[i].path = path}
    IN  IF hit = {} THEN <<>> ELSE <<d[CHOOSE i \in hit : TRUE]>>

DeleteChunksByDocument(c, id) == {x \in c : x.documentID # id}

\* DELETE FROM documents with ON DELETE CASCADE on chunks and collection_documents
DeleteDocument(st, id) ==
    [st EXCEPT !.docs = [i \in DOMAIN st.docs \ {id} |-> st.docs[i]],
               !.chunks = DeleteChunksByDocument(st.chunks, id),
               !.members = st.members \ {id}]

\* INSERT INTO chunks: refused on a duplicate id or a missing document row
InsertChunk(st, key, id) ==
    IF id \in DOMAIN st.docs /\ ~\E x \in st.chunks : x.id = key
    THEN [st EXCEPT !.chunks = @ \cup {[id |-> key, documentID |-> id]}]
    ELSE st

\* VectorStore.AddBatch: nothing on a length mismatch, else delete-then-add
AddBatch(v, keys, dims) ==
    IF Len(keys) # Len(dims) THEN v
    ELSE LET ks == {keys[i] : i \in 1..Len(keys)}
         IN  [k \in DOMAIN v \cup ks |->
                 IF k \in ks
                 THEN dims[CHOOSE i \in 1..Len(keys) :
                             keys[i] = k /\ \A j \in i+1..Len(keys) : keys[j] # k]
                 ELSE v[k]]

DocKeys(v, id) == {k \in DOMAIN v : extractDocID(k) = id}
DocChunks(c, id) == {x \in c : x.documentID = id}

(***************************************************************************)
(* Indexer: the per-document pipeline.                                     *)
(***************************************************************************)
RECURSIVE InsertChunks(_, _, _)
\* embedDocument's loop of InsertChunk calls, errors ignored
InsertChunks(st, keys, id) ==
    IF keys = <<>> THEN st
    ELSE InsertChunks(InsertChunk(st, keys[1], id), Tail(keys), id)

ChunkKeys(doc) ==
    [i \in 1..NumChunks(doc.content) |-> ChunkKey(doc.id, i - 1)]

\* what embedDocument deletes before it chunks
embedDocumentClear(st, doc) ==
    [st EXCEPT !.chunks = DeleteChunksByDocument(@, doc.id)]

\* Indexer.embedDocument; embedOk and dim are the backend's answer
embedDocument(st, doc, embedOk, dim) ==
    LET st1 == embedDocumentClear(st, doc)
        keys == ChunkKeys(doc)
    IN  IF Len(keys) = 0 THEN [st |-> st1, err |-> FALSE]
        ELSE IF ~embedOk THEN [st |-> st1, err |-> TRUE]
        ELSE [st  |-> [InsertChunks(st1, keys, doc.id) EXCEPT
                          !.vi = AddBatch(@, keys, [i \in 1..Len(keys) |-> dim])],
              err |-> FALSE]

FailPoints == {"none", "parse", "store", "index", "embed"}

\* a pipeline that fails the document when its embedding fails
IndexDocumentEmbedFatal(st, f, s, file, fail, dim) ==
    LET parsed == IF fail = "parse" THEN <<>> ELSE Parse(f, s, file)
    IN  IF parsed = <<>> THEN [st |-> st, err |-> "parse", embedErr |-> FALSE]
        ELSE IF fail = "store" THEN [st |-> st, err |-> "store", embedErr |-> FALSE]
        ELSE LET doc == parsed[1]
                 st1 == [st EXCEPT !.docs = UpsertDocument(@, doc)]
                 st2 == [st1 EXCEPT !.fti = @ \cup {doc.id}]
                 e   == embedDocument(st2, doc, fail # "embed", dim)
             IN  IF fail = "index" THEN [st |-> st1, err |-> "index", embedErr |-> FALSE]
                 ELSE IF embedEnabled
                 THEN [st |-> e.st, err |-> IF e.err THEN "embed" ELSE "",
                       embedErr |-> e.err]
                 ELSE [st |-> st2, err |-> "", embedErr |-> FALSE]

\* parse, UpsertDocument, search.Index, embedDocument, as the worker and
\* IndexFile run them; fail names the step whose call returns an error
IndexDocument(st, f, s, file, fail, dim) ==
    LET parsed == IF fail = "parse" THEN <<>> ELSE Parse(f, s, file)
    IN  IF parsed = <<>> THEN [st |-> st, err |-> "parse", embedErr |-> FALSE]
        ELSE IF fail = "store" THEN [st |-> st, err |-> "store", embedErr |-> FALSE]
        ELSE LET doc == parsed[1]
                 st1 == [st EXCEPT !.docs = UpsertDocument(@, doc)]
                 st2 == [st1 EXCEPT !.fti = @ \cup {doc.id}]
                 e   == embedDocument(st2, doc, fail # "embed", dim)
             IN  IF fail = "index" THEN [st |-> st1, err |-> "index", embedErr |-> FALSE]
                 ELSE IF embedEnabled THEN [st |-> e.st, err |-> "", embedErr |-> e.err]
                 ELSE [st |-> st2, err |-> "", embedErr |-> FALSE]

\* an incremental check that re-indexes a file as old as its stored document
UpToDateStrict(existing, file) ==
    existing # <<>> /\ existing[1].modifiedAt > file.modifiedAt

\* the worker's incremental check: up to date, nothing to do
UpToDate(existing, file) ==
    existing # <<>> /\ existing[1].modifiedAt >= file.modifiedAt

Event(kind, s, path, what, n, total) ==
    [kind |-> kind, source |-> s, path |-> path, what |-> what, n |-> n, total |-> total]

\* a reporter that hears of embedding failures only
ErrorEventsEmbedOnly(s, path, r) ==
    IF r.embedErr THEN <<Event("error", s, path, "embed", 0, 0)>> ELSE <<>>

ErrorEvents(s, path, r) ==
    (IF r.err # "" THEN <<Event("error", s, path, r.err, 0, 0)>> ELSE <<>>)
    \o (IF r.embedErr THEN <<Event("error", s, path, "embed", 0, 0)>> ELSE <<>>)

Call(op, s, path, res) == [op |-> op, source |-> s, path |-> path, res |-> res]

\* how the worker's lookup of the stored document came out
LookupResult(existing, lookupFails) ==
    IF lookupFails THEN "error"
    ELSE IF existing = <<>> THEN "absent"
    ELSE "found"

SetStore(st) ==
    /\ docs' = st.docs
    /\ chunks' = st.chunks
    /\ members' = st.members
    /\ fti' = st.fti
    /\ vi' = st.vi

ZeroStats == [total |-> 0, indexed |-> 0, errors |-> 0, bySource |-> <<>>]

Result(op, path, st, err) == [op |-> op, path |-> path, stats |-> st, err |-> err]

storeVars == <<docs, chunks, members, fti, vi>>
poolVars == <<allFiles, sent, jobs, jobsClosed, wfile, wexit, processed, indexed,
              errors, srcStats>>
logVars == <<stats, ret, events, calls, before>>

(***************************************************************************)
(* The environment: between two operations files change on disk and the    *)
(* user files documents into a collection.                                 *)
(***************************************************************************)
WriteFile(p, t, c) ==
    /\ UNCHANGED nonIndexVars
    /\ pc = "idle"
    /\ fs[p] # [exists |-> TRUE, mtime |-> t, content |-> c]
    /\ fs' = [fs EXCEPT ![p] = [exists |-> TRUE, mtime |-> t, content |-> c]]
    /\ UNCHANGED <<storeVars, embedEnabled, pc, cancelled, srcIdx, poolVars, logVars>>

NoFile == [exists |-> FALSE, mtime |-> 0, content |-> 0]

DeleteFile(p) ==
    /\ UNCHANGED nonIndexVars
    /\ pc = "idle"
    /\ fs[p].exists
    /\ fs' = [fs EXCEPT ![p] = NoFile]
    /\ UNCHANGED <<storeVars, embedEnabled, pc, cancelled, srcIdx, poolVars, logVars>>

\* DB.AddToCollection: INSERT OR IGNORE, refused without the document row
AddToCollection(id) ==
    /\ UNCHANGED nonIndexVars
    /\ pc = "idle"
    /\ id \in DOMAIN docs
    /\ id \notin members
    /\ members' = members \cup {id}
    /\ UNCHANGED <<fs, docs, chunks, fti, vi, embedEnabled, pc, cancelled, srcIdx,
                   poolVars, logVars>>

\* the ids a caller of the Catalog may give a document
DocumentIds == {IdOf(p) : p \in MarkdownPaths}

\* DB.UpsertDocument called with a document of the caller's making
PutDocument(id, path) ==
    /\ UNCHANGED nonIndexVars
    /\ pc = "idle"
    /\ docs' = UpsertDocument(docs, [id |-> id, source |-> "markdown", path |-> path,
                                     content |-> 1, modifiedAt |-> 1])
    /\ UNCHANGED <<fs, chunks, members, fti, vi, embedEnabled, pc, cancelled, srcIdx,
                   poolVars, logVars>>

(***************************************************************************)
(* Indexer.IndexAll and Indexer.indexSource.                               *)
(***************************************************************************)
IndexAllStart ==
    /\ UNCHANGED nonIndexVars
    /\ pc = "idle"
    /\ pc' = "scan"
    /\ srcIdx' = 1
    /\ before' = <<Store>>
    /\ UNCHANGED <<fs, storeVars, embedEnabled, cancelled, poolVars, stats, ret,
                   events, calls>>

\* ctx is cancelled by the caller while IndexAll runs
Cancel ==
    /\ UNCHANGED nonIndexVars
    /\ pc \in {"scan", "feed", "wait"}
    /\ ~cancelled
    /\ cancelled' = TRUE
    /\ UNCHANGED <<fs, storeVars, embedEnabled, pc, srcIdx, poolVars, logVars>>

\* indexSource up to the start of the workers: the scan is drained (a cancelled
\* scan may stop early), its k errors reported and counted, OnStart emitted
ScanFiles(k) ==
    /\ UNCHANGED nonIndexVars
    /\ pc = "scan"
    /\ LET s == Sources[srcIdx]
           full == ScanSource(fs, s)
       IN  \E n \in 0..Len(full) :
             /\ cancelled \/ n = Len(full)
             /\ allFiles' = SubSeq(full, 1, n)
             /\ srcStats' = [total |-> n, indexed |-> 0, errors |-> k]
             /\ events' = events
                    \o [i \in 1..k |-> Event("error", s, "", "scan", 0, 0)]
                    \o <<Event("start", s, "", "", 0, n)>>
             /\ calls' = Append(calls, Call("scan", s, "", ""))
    /\ sent' = 0
    /\ jobs' = <<>>
    /\ jobsClosed' = FALSE
    /\ wfile' = [w \in WorkerIds |-> <<>>]
    /\ wexit' = [w \in WorkerIds |-> FALSE]
    /\ processed' = 0
    /\ indexed' = 0
    /\ errors' = 0
    /\ pc' = "feed"
    /\ UNCHANGED <<fs, storeVars, embedEnabled, cancelled, srcIdx, stats, ret, before>>

\* the feeder's select: case jobs <- file
FeedSend ==
    /\ UNCHANGED nonIndexVars
    /\ pc = "feed"
    /\ sent < Len(allFiles)
    /\ Len(jobs) < 2 * Workers
    /\ jobs' = Append(jobs, allFiles[sent + 1])
    /\ sent' = sent + 1
    /\ UNCHANGED <<fs, storeVars, embedEnabled, pc, cancelled, srcIdx, allFiles,
                   jobsClosed, wfile, wexit, processed, indexed, errors, srcStats,
                   logVars>>

\* the feeder's select: case <-ctx.Done(), then close(jobs) and wg.Wait()
FeedCancel ==
    /\ UNCHANGED nonIndexVars
    /\ pc = "feed"
    /\ sent < Len(allFiles)
    /\ cancelled
    /\ jobsClosed' = TRUE
    /\ pc' = "cwait"
    /\ UNCHANGED <<fs, storeVars, embedEnabled, cancelled, srcIdx, allFiles, sent,
                   jobs, wfile, wexit, processed, indexed, errors, srcStats, logVars>>

\* every file is sent: close(jobs), then wg.Wait()
FeedClose ==
    /\ UNCHANGED nonIndexVars
    /\ pc = "feed"
    /\ sent = Len(allFiles)
    /\ jobsClosed' = TRUE
    /\ pc' = "wait"
    /\ UNCHANGED <<fs, storeVars, embedEnabled, cancelled, srcIdx, allFiles, sent,
                   jobs, wfile, wexit, processed, indexed, errors, srcStats, logVars>>

\* a receive that leaves the value in the channel
recvPeek(q) == [file |-> Head(q), rest |-> q]

\* a receive on the jobs channel: the value goes to one receiver and leaves
\* the channel
recv(q) == [file |-> Head(q), rest |-> Tail(q)]

\* a worker's  for file := range jobs
WorkerRecv(w) ==
    /\ UNCHANGED nonIndexVars
    /\ pc \in {"feed", "wait", "cwait"}
    /\ ~wexit[w]
    /\ wfile[w] = <<>>
    /\ \/ /\ jobs # <<>>
          /\ wfile' = [wfile EXCEPT ![w] = <<recv(jobs).file>>]
          /\ jobs' = recv(jobs).rest
          /\ wexit' = wexit
       \/ /\ jobs = <<>>
          /\ jobsClosed
          /\ wexit' = [wexit EXCEPT ![w] = TRUE]
          /\ UNCHANGED <<wfile, jobs>>
    /\ UNCHANGED <<fs, storeVars, embedEnabled, pc, cancelled, srcIdx, allFiles,
                   sent, jobsClosed, processed, indexed, errors, srcStats, logVars>>

\* the body of the worker's loop for the file it holds
WorkerProcess(w) ==
    /\ UNCHANGED nonIndexVars
    /\ pc \in {"feed", "wait", "cwait"}
    /\ wfile[w] # <<>>
    /\ wfile' = [wfile EXCEPT ![w] = <<>>]
    /\ LET file == wfile[w][1]
           s == Sources[srcIdx]
           progress == Event("progress", s, file.path, "", processed + 1, Len(allFiles))
       IN  IF cancelled
           THEN /\ wexit' = [wexit EXCEPT ![w] = TRUE]
                /\ UNCHANGED <<storeVars, processed, indexed, errors, events, calls>>
           ELSE \E lookupFails \in BOOLEAN, fail \in FailPoints, dim \in BackendDims :
                  LET existing == IF lookupFails THEN <<>>
                                  ELSE GetDocumentByPath(docs, file.path)
                      lookup == Call("lookup", s, file.path,
                                     LookupResult(existing, lookupFails))
                      r == IndexDocument(Store, fs, s, file, fail, dim)
                  IN  /\ wexit' = wexit
                      /\ processed' = processed + 1
                      /\ IF UpToDate(existing, file)
                         THEN /\ indexed' = indexed + 1
                              /\ events' = Append(events, progress)
                              /\ calls' = Append(calls, lookup)
                              /\ UNCHANGED <<storeVars, errors>>
                         ELSE /\ SetStore(r.st)
                              /\ calls' = calls \o <<lookup, Call("parse", s, file.path, r.err)>>
                              /\ events' = Append(events, progress)
                                              \o ErrorEvents(s, file.path, r)
                              /\ indexed' = IF r.err = "" THEN indexed + 1 ELSE indexed
                              /\ errors' = IF r.err = "" THEN errors ELSE errors + 1
    /\ UNCHANGED <<fs, embedEnabled, pc, cancelled, srcIdx, allFiles, sent, jobs,
                   jobsClosed, srcStats, stats, ret, before>>

\* what indexSource returns after the workers joined
SourceStats(ss, nIndexed, nErrors) ==
    [ss EXCEPT !.indexed = nIndexed, !.errors = nErrors]

\* IndexAll's accumulation of one source's stats
Accumulate(st, s, ss) ==
    [total    |-> st.total + ss.total,
     indexed  |-> st.indexed + ss.indexed,
     errors   |-> st.errors + ss.errors,
     bySource |-> Append(st.bySource, <<s, ss.indexed>>)]

\* a wait that does not wait
waitedNone(exits) == TRUE

\* wg.Wait() returns: every worker has called wg.Done()
waited(exits) == \A w \in WorkerIds : exits[w]

\* wg.Wait() returns on the normal path: OnComplete, and IndexAll moves on
Join ==
    /\ UNCHANGED nonIndexVars
    /\ pc = "wait"
    /\ waited(wexit)
    /\ events' = Append(events, Event("complete", Sources[srcIdx], "", "",
                                      indexed, errors))
    /\ stats' = Accumulate(stats, Sources[srcIdx], SourceStats(srcStats, indexed, errors))
    /\ IF srcIdx < Len(Sources)
       THEN /\ srcIdx' = srcIdx + 1
            /\ pc' = "scan"
            /\ ret' = ret
       ELSE /\ srcIdx' = srcIdx
            /\ pc' = "returned"
            /\ ret' = <<Result("index_all", "", stats', "")>>
    /\ UNCHANGED <<fs, storeVars, embedEnabled, cancelled, poolVars, calls, before>>

\* what IndexAll returns when indexSource returned ctx.Err(): its own stats
CancelledStats(st, ss, nIndexed, nErrors) == st

\* wg.Wait() returns on the cancelled path: indexSource returns stats and
\* ctx.Err(), IndexAll returns its own stats and the wrapped error
JoinCancelled ==
    /\ UNCHANGED nonIndexVars
    /\ pc = "cwait"
    /\ waited(wexit)
    /\ pc' = "returned"
    /\ ret' = <<Result("index_all", "",
                       CancelledStats(stats, srcStats, indexed, errors), "cancelled")>>
    /\ UNCHANGED <<fs, storeVars, embedEnabled, cancelled, srcIdx, poolVars, stats,
                   events, calls, before>>

(***************************************************************************)
(* Indexer.IndexFile and Indexer.RemoveFile.                               *)
(***************************************************************************)
HasPath(files, path) == \E j \in 1..Len(files) : files[j].path = path

\* the sources IndexFile scans, in order, up to the first whose scan holds path
ScannedSources(f, path) ==
    LET hit == {i \in 1..Len(Sources) : HasPath(ScanSource(f, Sources[i]), path)}
    IN  IF hit = {} THEN Len(Sources)
        ELSE CHOOSE i \in hit : \A j \in hit : i <= j

IndexFileScans(f, path) ==
    [i \in 1..ScannedSources(f, path) |-> Call("scan", Sources[i], "", "")]

IndexFileCall(path) ==
    /\ pc = "idle"
    /\ pc' = "returned"
    /\ before' = <<Store>>
    /\ LET k == ScannedSources(fs, path)
           s == Sources[k]
           files == ScanSource(fs, s)
       IN  IF ~HasPath(files, path)
           THEN /\ ret' = <<Result("index_file", path, ZeroStats, "nosource")>>
                /\ calls' = IndexFileScans(fs, path)
                /\ events' = <<>>
                /\ UNCHANGED storeVars
           ELSE \E fail \in FailPoints, dim \in BackendDims :
                  LET file == files[CHOOSE j \in 1..Len(files) : files[j].path = path]
                      r == IndexDocument(Store, fs, s, file, fail, dim)
                  IN  /\ SetStore(r.st)
                      /\ ret' = <<Result("index_file", path, ZeroStats, r.err)>>
                      /\ calls' = Append(IndexFileScans(fs, path),
                                         Call("parse", s, path, r.err))
                      /\ events' = IF r.embedErr
                                   THEN <<Event("error", s, path, "embed", 0, 0)>>
                                   ELSE <<>>
    /\ UNCHANGED <<fs, embedEnabled, cancelled, srcIdx, poolVars, stats>>

RemoveFailPoints == {"none", "lookup", "search", "database"}

\* a removal that deletes the Catalog row before the full-text entry
RemoveDocumentCatalogFirst(st, id, fail) ==
    LET st1 == DeleteDocument(st, id)
    IN  IF fail = "database" THEN st
        ELSE IF fail = "search" THEN st1
        ELSE [st1 EXCEPT !.fti = @ \ {id}]

\* what RemoveFile deletes once the document is resolved
RemoveDocument(st, id, fail) ==
    LET st1 == [st EXCEPT !.fti = @ \ {id}]
    IN  IF fail = "search" THEN st
        ELSE IF fail = "database" THEN st1
        ELSE DeleteDocument(st1, id)

\* Indexer.IndexFile called on its own
IndexFile(path) == UNCHANGED nonIndexVars /\ IndexFileCall(path)

RemoveFileCall(path) ==
    /\ pc = "idle"
    /\ pc' = "returned"
    /\ before' = <<Store>>
    /\ \E fail \in RemoveFailPoints :
         LET found == IF fail = "lookup" THEN <<>> ELSE GetDocumentByPath(docs, path)
         IN  IF found = <<>>
             THEN /\ ret' = <<Result("remove_file", path, ZeroStats, "notfound")>>
                  /\ UNCHANGED storeVars
             ELSE /\ SetStore(RemoveDocument(Store, found[1].id, fail))
                  /\ ret' = <<Result("remove_file", path, ZeroStats,
                                     IF fail = "none" THEN "" ELSE fail)>>
    /\ events' = <<>>
    /\ calls' = <<>>
    /\ UNCHANGED <<fs, embedEnabled, cancelled, srcIdx, poolVars, stats>>

\* the caller has taken the result: the next operation starts afresh
\* Indexer.RemoveFile called on its own
RemoveFile(path) == UNCHANGED nonIndexVars /\ RemoveFileCall(path)

Return ==
    /\ UNCHANGED nonIndexVars
    /\ pc = "returned"
    /\ pc' = "idle"
    /\ cancelled' = FALSE
    /\ srcIdx' = 1
    /\ allFiles' = <<>>
    /\ sent' = 0
    /\ jobs' = <<>>
    /\ jobsClosed' = FALSE
    /\ wfile' = [w \in WorkerIds |-> <<>>]
    /\ wexit' = [w \in WorkerIds |-> FALSE]
    /\ processed' = 0
    /\ indexed' = 0
    /\ errors' = 0
    /\ srcStats' = [total |-> 0, indexed |-> 0, errors |-> 0]
    /\ stats' = ZeroStats
    /\ ret' = <<>>
    /\ events' = <<>>
    /\ calls' = <<>>
    /\ before' = <<>>
    /\ UNCHANGED <<fs, storeVars, embedEnabled>>


(***************************************************************************)
(* HybridSearcher.  Scores of the fusion are exact: a reciprocal-rank      *)
(* score is kept as its numerator over WeightDen * RankProd.               *)
(***************************************************************************)
rrfK == 60

Queries == {"x", "y"}
Limits == {1, 2}
SearchIds == {IdOf(p) : p \in Paths}
SearchKeys == {ChunkKey(IdOf("a"), 0), ChunkKey(IdOf("a"), 1), ChunkKey(IdOf("b"), 0)}

Min(a, b) == IF a <= b THEN a ELSE b

\* the sequences of at most n distinct elements of S
Orderings(S, n) ==
    {s \in UNION {[1..m -> S] : m \in 0..n} :
        \A i, j \in 1..Len(s) : i # j => s[i] # s[j]}

\* the documents a query string matches: "x" every one, "y" all but a's
Matches(q, id) == q = "x" \/ id # IdOf("a")

\* the hits of the full-text index for a query, best first
FtiHits(q) ==
    LET ids == FilterSeq(ranking, {id \in SearchIds : Matches(q, id)})
    IN  [i \in 1..Len(ids) |-> [id |-> ids[i], score |-> Len(ids) + 1 - i]]

\* BleveIndex.Search(q, n): the first n hits
bleveSearch(q, n) == SubSeq(FtiHits(q), 1, Min(n, Len(FtiHits(q))))

\* VectorStore.Search(emb, n): the n nearest keys with their similarity
vectorsSearch(n) ==
    [i \in 1..Min(n, Len(vecRanking)) |->
        [key |-> vecRanking[i], score |-> Len(vecRanking) + 1 - i]]

RECURSIVE Prod(_)
Prod(n) == IF n = 0 THEN 1 ELSE (rrfK + n) * Prod(n - 1)

RankProd == Prod(MaxHits)

\* 1 / (k + rank + 1) for the 1-based position r = rank + 1, over RankProd
RankUnit(r) == RankProd \div (rrfK + r)

RECURSIVE SumUnits(_)
SumUnits(rs) ==
    IF rs = {} THEN 0
    ELSE LET r == CHOOSE x \in rs : TRUE IN RankUnit(r) + SumUnits(rs \ {r})

MaxOf(rs) == CHOOSE x \in rs : \A y \in rs : y <= x
MinOf(rs) == CHOOSE x \in rs : \A y \in rs : x <= y

\* a fusion that weighs the BM25 list by w and the vector list by 1 - w
fusedEntrySwapped(bm, vec, w, id) ==
    LET bmRanks == {r \in 1..Len(bm) : bm[r].id = id}
        vecRanks == {r \in 1..Len(vec) : extractDocID(vec[r].key) = id}
    IN  [id        |-> id,
         bm25Score |-> IF bmRanks = {} THEN 0 ELSE bm[MaxOf(bmRanks)].score,
         vecScore  |-> IF vecRanks = {} THEN 0 ELSE vec[MaxOf(vecRanks)].score,
         rrfScore  |-> w * SumUnits(bmRanks) + (WeightDen - w) * SumUnits(vecRanks),
         chunkKey  |-> IF vecRanks = {} THEN <<>> ELSE vec[MinOf(vecRanks)].key]

\* fuseResults: the entry the two loops leave in the map for one document
fusedEntry(bm, vec, w, id) ==
    LET bmRanks == {r \in 1..Len(bm) : bm[r].id = id}
        vecRanks == {r \in 1..Len(vec) : extractDocID(vec[r].key) = id}
    IN  [id        |-> id,
         bm25Score |-> IF bmRanks = {} THEN 0 ELSE bm[MaxOf(bmRanks)].score,
         vecScore  |-> IF vecRanks = {} THEN 0 ELSE vec[MaxOf(vecRanks)].score,
         rrfScore  |-> (WeightDen - w) * SumUnits(bmRanks) + w * SumUnits(vecRanks),
         chunkKey  |-> IF vecRanks = {} THEN <<>> ELSE vec[MinOf(vecRanks)].key]

\* a fusion that leaves the map's entries unsorted
fuseResultsUnsorted(bm, vec, w) ==
    LET ids == {bm[r].id : r \in 1..Len(bm)}
                 \cup {extractDocID(vec[r].key) : r \in 1..Len(vec)}
        entries == {fusedEntry(bm, vec, w, id) : id \in ids}
    IN  {s \in Orderings(entries, Cardinality(entries)) :
            Len(s) = Cardinality(entries)}

\* fuseResults: every order sort.Slice may leave the map's entries in
fuseResults(bm, vec, w) ==
    LET ids == {bm[r].id : r \in 1..Len(bm)}
                 \cup {extractDocID(vec[r].key) : r \in 1..Len(vec)}
        entries == {fusedEntry(bm, vec, w, id) : id \in ids}
    IN  {s \in Orderings(entries, Cardinality(entries)) :
            /\ Len(s) = Cardinality(entries)
            /\ \A i \in 1..Len(s) - 1 : s[i].rrfScore >= s[i + 1].rrfScore}

\* the entries whose document DB.GetDocument resolves, in order
RECURSIVE Resolved(_)
Resolved(s) ==
    IF s = <<>> THEN <<>>
    ELSE (IF s[1].id \in catalog THEN <<s[1]>> ELSE <<>>) \o Resolved(Tail(s))

\* a buildResults that forgets to cut the fused ranking at limit
buildResultsUncut(fused, limit) ==
    LET kept == Resolved(fused)
    IN  [i \in 1..Len(kept) |->
            [id          |-> kept[i].id,
             score       |-> kept[i].rrfScore,
             bm25Score   |-> kept[i].bm25Score,
             vectorScore |-> kept[i].vecScore,
             chunkID     |-> kept[i].chunkKey]]

\* buildResults
buildResults(fused, limit) ==
    LET kept == Resolved(SubSeq(fused, 1, Min(limit, Len(fused))))
    IN  [i \in 1..Len(kept) |->
            [id          |-> kept[i].id,
             score       |-> kept[i].rrfScore,
             bm25Score   |-> kept[i].bm25Score,
             vectorScore |-> kept[i].vecScore,
             chunkID     |-> kept[i].chunkKey]]

\* a BM25-only search that returns hits the Catalog does not resolve
bm25OnlyUnresolved(q, limit, ok) ==
    LET kept == bleveSearch(q, limit)
    IN  IF ~ok THEN [err |-> "fti", results |-> <<>>]
        ELSE [err     |-> "",
              results |-> [i \in 1..Len(kept) |->
                             [id          |-> kept[i].id,
                              score       |-> kept[i].score,
                              bm25Score   |-> kept[i].score,
                              vectorScore |-> 0,
                              chunkID     |-> <<>>]]]

\* bm25Only; ok is whether its BleveIndex.Search call succeeds
bm25Only(q, limit, ok) ==
    LET kept == Resolved(bleveSearch(q, limit))
    IN  IF ~ok THEN [err |-> "fti", results |-> <<>>]
        ELSE [err     |-> "",
              results |-> [i \in 1..Len(kept) |->
                             [id          |-> kept[i].id,
                              score       |-> kept[i].score,
                              bm25Score   |-> kept[i].score,
                              vectorScore |-> 0,
                              chunkID     |-> <<>>]]]

\* a Search that hands the vector leg's error to its caller
vectorLegError(q, limit, ok) == [err |-> "embed", results |-> <<>>]

\* Search, once both legs have answered and the vector leg's answer is an error
vectorLegFailed(q, limit, ok) == bm25Only(q, limit, ok)

BackendCall(op, q, n, ok) == [op |-> op, q |-> q, n |-> n, ok |-> ok]

\* fused is the fused ranking the results were built from, <<>> without fusion
SearchResult(q, limit, r, fused) ==
    [q |-> q, limit |-> limit, err |-> r.err, results |-> r.results,
     fused |-> fused]

\* Search takes the BM25-only path without asking the embedder
NoVectorSearch ==
    ~hybrid.vectors \/ ~hybrid.embedder \/ Len(vecRanking) = 0

\* HybridSearcher.Search; ftiOk, embedOk and fallbackOk are the outcomes of the
\* BM25 leg's query, of Embed and of bm25Only's query
Search(q, limit) ==
    /\ UNCHANGED nonSearchVars
    /\ out = <<>>
    /\ \E ftiOk \in BOOLEAN, embedOk \in BOOLEAN, fallbackOk \in BOOLEAN :
         IF NoVectorSearch
         THEN /\ out' = <<SearchResult(q, limit, bm25Only(q, limit, fallbackOk), <<>>)>>
              /\ trace' = <<BackendCall("fti", q, limit, fallbackOk)>>
         ELSE LET legs == <<BackendCall("fti", q, limit * 2, ftiOk),
                            BackendCall("embed", q, 0, embedOk)>>
              IN  IF ~embedOk
                  THEN /\ out' = <<SearchResult(q, limit,
                                                vectorLegFailed(q, limit, fallbackOk),
                                                <<>>)>>
                       /\ trace' = Append(legs, BackendCall("fti", q, limit, fallbackOk))
                  ELSE IF ~ftiOk
                  THEN /\ out' = <<SearchResult(q, limit,
                                                [err |-> "fti", results |-> <<>>],
                                                <<>>)>>
                       /\ trace' = Append(legs, BackendCall("vectors", q, limit * 2, TRUE))
                  ELSE \E fused \in fuseResults(bleveSearch(q, limit * 2),
                                                vectorsSearch(limit * 2), hybrid.weight) :
                         /\ out' = <<SearchResult(q, limit,
                                        [err |-> "", results |-> buildResults(fused, limit)],
                                        fused)>>
                         /\ trace' = Append(legs,
                                            BackendCall("vectors", q, limit * 2, TRUE))
    /\ UNCHANGED <<hybrid, catalog, ranking, vecRanking>>

\* the caller has taken the results
SearchReturn ==
    /\ UNCHANGED nonSearchVars
    /\ out # <<>>
    /\ out' = <<>>
    /\ trace' = <<>>
    /\ UNCHANGED <<hybrid, catalog, ranking, vecRanking>>

(***************************************************************************)
(* The embedding gateway: OllamaEmbedder behind CachedEmbedder.  A float32 *)
(* is its bit pattern, a blob a sequence of bytes.                         *)
(***************************************************************************)
Texts == {"s", "t"}

\* the vectors the backend may answer a text with
Vectors == {<<258>>, <<1, 258>>}

\* contentHash: a digest of the text
contentHash(text) == <<"h", text>>

\* binary.LittleEndian.PutUint32(math.Float32bits(v))
PutUint32(x) ==
    <<x % 256, (x \div 256) % 256, (x \div 65536) % 256, (x \div 16777216) % 256>>

RECURSIVE encodeEmbedding(_)
encodeEmbedding(emb) ==
    IF emb = <<>> THEN <<>>
    ELSE PutUint32(emb[1]) \o encodeEmbedding(Tail(emb))

decodeEmbedding(buf) ==
    [i \in 1..(Len(buf) \div 4) |->
        buf[4 * i - 3] + 256 * buf[4 * i - 2] + 65536 * buf[4 * i - 1]
          + 16777216 * buf[4 * i]]

\* CachedEmbedder.get: <<>> on any error, a miss included
get(cache, hash) ==
    IF hash \in DOMAIN cache THEN <<decodeEmbedding(cache[hash])>> ELSE <<>>

\* a cache that forgets what it is given
putNothing(cache, hash, emb) == cache

\* CachedEmbedder.put: INSERT OR REPLACE
put(cache, hash, emb) ==
    [h \in DOMAIN cache \cup {hash} |->
        IF h = hash THEN encodeEmbedding(emb) ELSE cache[h]]

\* what the Ollama server may answer a request of n texts with: an error, n
\* embeddings, or one embedding too few
Answers(n) ==
    {[ok |-> FALSE, embeddings |-> <<>>]}
      \cup {[ok |-> TRUE, embeddings |-> e] :
               e \in [1..n -> Vectors] \cup (IF n = 0 THEN {} ELSE [1..n - 1 -> Vectors])}

\* an embedder that takes its dimension from every response
OllamaEmbedBatchLatest(dim, texts, answer) ==
    IF Len(texts) = 0
    THEN [err |-> "", embeddings |-> <<>>, dimensions |-> dim, request |-> <<>>]
    ELSE IF ~answer.ok
    THEN [err |-> "backend", embeddings |-> <<>>, dimensions |-> dim,
          request |-> <<[texts |-> texts, answer |-> answer]>>]
    ELSE IF Len(answer.embeddings) # Len(texts)
    THEN [err |-> "count", embeddings |-> <<>>, dimensions |-> dim,
          request |-> <<[texts |-> texts, answer |-> answer]>>]
    ELSE [err |-> "", embeddings |-> answer.embeddings,
          dimensions |-> Len(answer.embeddings[1]),
          request |-> <<[texts |-> texts, answer |-> answer]>>]

\* OllamaEmbedder.EmbedBatch; request is the HTTP request it made, if any
OllamaEmbedBatch(dim, texts, answer) ==
    IF Len(texts) = 0
    THEN [err |-> "", embeddings |-> <<>>, dimensions |-> dim, request |-> <<>>]
    ELSE IF ~answer.ok
    THEN [err |-> "backend", embeddings |-> <<>>, dimensions |-> dim,
          request |-> <<[texts |-> texts, answer |-> answer]>>]
    ELSE IF Len(answer.embeddings) # Len(texts)
    THEN [err |-> "count", embeddings |-> <<>>, dimensions |-> dim,
          request |-> <<[texts |-> texts, answer |-> answer]>>]
    ELSE [err |-> "", embeddings |-> answer.embeddings,
          dimensions |-> IF dim = 0 /\ Len(answer.embeddings) > 0
                         THEN Len(answer.embeddings[1]) ELSE dim,
          request |-> <<[texts |-> texts, answer |-> answer]>>]

\* an embedder that answers a failed request with a zero vector and no error
OllamaEmbedQuiet(dim, text, answer) ==
    LET r == OllamaEmbedBatch(dim, <<text>>, answer)
    IN  IF r.err # "" THEN [r EXCEPT !.err = "", !.embeddings = <<<<0>>>>]
        ELSE IF Len(r.embeddings) = 0 THEN [r EXCEPT !.err = "none"]
        ELSE r

\* OllamaEmbedder.Embed
OllamaEmbed(dim, text, answer) ==
    LET r == OllamaEmbedBatch(dim, <<text>>, answer)
    IN  IF r.err # "" THEN r
        ELSE IF Len(r.embeddings) = 0 THEN [r EXCEPT !.err = "none"]
        ELSE r

EmbedCall(op, texts, r, vecs) ==
    [op |-> op, texts |-> texts, request |-> r.request, err |-> r.err,
     vecs |-> vecs, dimensions |-> r.dimensions]

\* CachedEmbedder.Embed
CachedEmbed(text) ==
    /\ UNCHANGED nonEmbedVars
    /\ Len(elog) < MaxOps
    /\ LET hit == get(ecache, contentHash(text))
       IN  IF hit # <<>>
           THEN /\ elog' = Append(elog,
                       EmbedCall("embed", <<text>>,
                                 [request |-> <<>>, err |-> "", dimensions |-> dimensions],
                                 hit))
                /\ UNCHANGED <<ecache, dimensions>>
           ELSE \E answer \in Answers(1) :
                  LET r == OllamaEmbed(dimensions, text, answer)
                  IN  /\ dimensions' = r.dimensions
                      /\ IF r.err # ""
                         THEN /\ elog' = Append(elog, EmbedCall("embed", <<text>>, r, <<>>))
                              /\ ecache' = ecache
                         ELSE /\ elog' = Append(elog, EmbedCall("embed", <<text>>, r,
                                                                <<r.embeddings[1]>>))
                              /\ ecache' = put(ecache, contentHash(text), r.embeddings[1])

\* a batch that asks the backend for every text
uncachedAll(cache, texts) == [i \in 1..Len(texts) |-> i]

\* EmbedBatch: uncachedIndices, the positions whose text the cache misses
uncachedIndices(cache, texts) ==
    LET idx == {i \in 1..Len(texts) : get(cache, contentHash(texts[i])) = <<>>}
    IN  FilterSeq([i \in 1..Len(texts) |-> i], idx)

\* EmbedBatch: the loop that stores the backend's embeddings in the cache
RECURSIVE putAll(_, _, _)
putAll(cache, texts, embeddings) ==
    IF texts = <<>> THEN cache
    ELSE putAll(put(cache, contentHash(texts[1]), embeddings[1]),
                Tail(texts), Tail(embeddings))

\* CachedEmbedder.EmbedBatch
CachedEmbedBatch(texts) ==
    /\ UNCHANGED nonEmbedVars
    /\ Len(elog) < MaxOps
    /\ LET idx == uncachedIndices(ecache, texts)
           uncachedTexts == [j \in 1..Len(idx) |-> texts[idx[j]]]
       IN  \E answer \in Answers(Len(idx)) :
             LET r == IF Len(idx) > 0
                      THEN OllamaEmbedBatch(dimensions, uncachedTexts, answer)
                      ELSE [request |-> <<>>, err |-> "", dimensions |-> dimensions,
                            embeddings |-> <<>>]
                 results == [i \in 1..Len(texts) |->
                               IF \E j \in 1..Len(idx) : idx[j] = i
                               THEN r.embeddings[CHOOSE j \in 1..Len(idx) : idx[j] = i]
                               ELSE get(ecache, contentHash(texts[i]))[1]]
             IN  /\ dimensions' = r.dimensions
                 /\ IF r.err # ""
                    THEN /\ elog' = Append(elog, EmbedCall("batch", texts, r, <<>>))
                         /\ ecache' = ecache
                    ELSE /\ elog' = Append(elog, EmbedCall("batch", texts, r, results))
                         /\ ecache' = putAll(ecache, uncachedTexts, r.embeddings)

(***************************************************************************)
(* VectorStore over its HNSW graph.  The graph is the bag of its nodes:    *)
(* VectorStore deletes a key before it adds it because the graph does not  *)
(* handle duplicate keys, and it checks no vector length itself, so what   *)
(* becomes of a node of another length is up to the graph of the build:    *)
(* it stores the node (lenient) or it panics.                              *)
(***************************************************************************)
StoreKeys == {"k1", "k2"}
StoreVectors == {<<1>>, <<1, 1>>}

Node(key, vector) == [key |-> key, vector |-> vector]

\* the keys of the graph's nodes
graphKeys(g) == {node.key : node \in BagToSet(g)}

\* graph.Delete(key)
graphDelete(g, key) ==
    [node \in {m \in BagToSet(g) : m.key # key} |-> g[node]]

\* the node has the length of the graph's vectors
Fits(g, node) ==
    \A m \in BagToSet(g) : Len(m.vector) = Len(node.vector)

RECURSIVE graphAdd(_, _)
\* graph.Add(nodes...): <<>> when it panics, else <<the graph>>
graphAdd(g, nodes) ==
    IF nodes = <<>> THEN <<g>>
    ELSE IF ~Fits(g, nodes[1]) /\ ~lenient THEN <<>>
    ELSE graphAdd(g (+) SetToBag({nodes[1]}), Tail(nodes))

RECURSIVE graphDeleteAll(_, _)
\* AddBatch: the loop of graph.Delete(keys[i])
graphDeleteAll(g, keys) ==
    IF keys = <<>> THEN g
    ELSE graphDeleteAll(graphDelete(g, keys[1]), Tail(keys))

\* the store after graph.Add returned r, having been given the keys
AfterGraphAdd(r, keys) ==
    IF r = <<>>
    THEN vpanic' = TRUE /\ UNCHANGED <<graph, vlive>>
    ELSE vpanic' = FALSE /\ graph' = r[1] /\ vlive' = vlive \cup keys

\* VectorStore.Add
VectorAddCall(key, vector) ==
    /\ ~vpanic
    /\ AfterGraphAdd(graphAdd(graphDelete(graph, key), <<Node(key, vector)>>), {key})
    /\ vop' = "Add"
    /\ vout' = <<>>
    /\ UNCHANGED <<disk, lenient>>

\* VectorStore.AddBatch
VectorAddBatchCall(keys, vectors) ==
    /\ ~vpanic
    /\ IF Len(keys) # Len(vectors)
       THEN UNCHANGED <<graph, vpanic, vlive>>
       ELSE LET nodes == [i \in 1..Len(keys) |-> Node(keys[i], vectors[i])]
            IN  AfterGraphAdd(graphAdd(graphDeleteAll(graph, keys), nodes),
                              {keys[i] : i \in 1..Len(keys)})
    /\ vop' = "AddBatch"
    /\ vout' = <<>>
    /\ UNCHANGED <<disk, lenient>>

\* VectorStore.Delete
VectorDeleteCall(key) ==
    /\ ~vpanic
    /\ graph' = graphDelete(graph, key)
    /\ vlive' = vlive \ {key}
    /\ vop' = "Delete"
    /\ vout' = <<>>
    /\ UNCHANGED <<disk, vpanic, lenient>>

\* VectorStore.Len
VectorLen(g) == BagCardinality(g)

\* the nodes of the graph whose key is in keys
NodesOf(g, keys) == [node \in {m \in BagToSet(g) : m.key \in keys} |-> g[node]]

\* VectorStore.Search(query, n): nil on an empty store, else the keys of the
\* n nearest nodes; which nodes they are depends on the query
VectorSearchCall(n) ==
    /\ ~vpanic
    /\ IF VectorLen(graph) = 0
       THEN vout' = <<{}>>
       ELSE \E found \in SUBSET graphKeys(graph) \ {{}} :
              /\ Cardinality(found) <= n
              /\ BagCardinality(NodesOf(graph, found)) >= Min(n, VectorLen(graph))
              /\ vout' = <<found>>
    /\ vop' = "Search"
    /\ UNCHANGED <<graph, disk, vpanic, vlive, lenient>>

\* graph.Save: the nodes the file holds
saved(g) == g

\* a load that ignores the file
loadedNothing(d) == EmptyBag

\* NewVectorStore: LoadSavedGraph, or a new graph when the file does not exist
loaded(d) == IF d = <<>> THEN EmptyBag ELSE d[1]

\* VectorStore.Close: return v.Save(); nothing marks the store as closed
VectorCloseCall ==
    /\ ~vpanic
    /\ \E ok \in BOOLEAN :
         /\ disk' = IF ok THEN <<saved(graph)>> ELSE disk
         /\ vop' = IF ok THEN "Close" ELSE "CloseFailed"
    /\ vout' = <<>>
    /\ UNCHANGED <<graph, vpanic, vlive, lenient>>

\* VectorStore.Save; ok is whether the file could be written
VectorSaveCall ==
    /\ ~vpanic
    /\ \E ok \in BOOLEAN :
         /\ disk' = IF ok THEN <<saved(graph)>> ELSE disk
         /\ vop' = IF ok THEN "Save" ELSE "SaveFailed"
    /\ vout' = <<>>
    /\ UNCHANGED <<graph, vpanic, vlive, lenient>>

\* NewVectorStore: a process opens the store from its path
VectorOpen ==
    /\ UNCHANGED nonVectorVars
    /\ graph' = loaded(disk)
    /\ vlive' = graphKeys(graph')
    /\ vpanic' = FALSE
    /\ vop' = "Open"
    /\ vout' = <<>>
    /\ UNCHANGED <<disk, lenient>>

\* VectorStore.Len, between RLock and RUnlock
VectorLenCall ==
    /\ ~vpanic
    /\ vout' = <<VectorLen(graph)>>
    /\ vop' = "Len"
    /\ UNCHANGED <<graph, disk, vpanic, vlive, lenient>>

\* the methods called one at a time: lock, body and unlock are one step
VectorAdd(key, vector) == UNCHANGED nonVectorVars /\ VectorAddCall(key, vector)

VectorAddBatch(keys, vectors) == UNCHANGED nonVectorVars /\ VectorAddBatchCall(keys, vectors)

VectorDelete(key) == UNCHANGED nonVectorVars /\ VectorDeleteCall(key)

VectorSearch(n) == UNCHANGED nonVectorVars /\ VectorSearchCall(n)

VectorSave == UNCHANGED nonVectorVars /\ VectorSaveCall

VectorClose == UNCHANGED nonVectorVars /\ VectorCloseCall

(***************************************************************************)
(* VectorStore.mu.  Several goroutines call the store; a call is inside    *)
(* from the moment it has the mutex until its deferred unlock.  The graph  *)
(* is read or written while the call is inside; since a writer is alone    *)
(* and readers leave the graph as it is, the body takes effect in the step *)
(* that leaves.                                                            *)
(***************************************************************************)
Callers == 1..MaxCallers

Idle == [op |-> "idle", args |-> <<>>]

\* the calls a goroutine may make; an AddBatch whose keys and vectors differ
\* in number returns before it touches the mutex and is no call here
VectorCalls ==
    {[op |-> "Add", args |-> <<key, vector>>] :
        key \in StoreKeys, vector \in StoreVectors}
      \cup {[op |-> "AddBatch", args |-> <<<<key>>, <<vector>>>>] :
               key \in StoreKeys, vector \in StoreVectors}
      \cup {[op |-> "Delete", args |-> <<key>>] : key \in StoreKeys}
      \cup {[op |-> "Search", args |-> <<n>>] : n \in 1..MaxAdd}
      \cup {[op |-> "Len", args |-> <<>>], [op |-> "Save", args |-> <<>>]}

\* a store whose every method takes the read lock
LockModeRead(op) == "r"

\* v.mu.Lock() in Add, AddBatch and Delete; v.mu.RLock() in Search, Len and Save
LockMode(op) == IF op \in {"Add", "AddBatch", "Delete"} THEN "w" ELSE "r"

\* sync.RWMutex: Lock waits for no writer and no reader, RLock for no writer
CanLock(m, mode) == IF mode = "w" THEN ~m.writer /\ m.readers = 0 ELSE ~m.writer

Locked(m, mode) ==
    IF mode = "w" THEN [m EXCEPT !.writer = TRUE] ELSE [m EXCEPT !.readers = @ + 1]

Unlocked(m, mode) ==
    IF mode = "w" THEN [m EXCEPT !.writer = FALSE] ELSE [m EXCEPT !.readers = @ - 1]

\* caller t enters a method: v.mu.Lock() or v.mu.RLock() returns
Enter(t, c) ==
    /\ vcall[t] = Idle
    /\ ~vpanic
    /\ CanLock(mu, LockMode(c.op))
    /\ mu' = Locked(mu, LockMode(c.op))
    /\ vcall' = [vcall EXCEPT ![t] = c]
    /\ UNCHANGED <<nonStoreVars, vectorVars>>

\* caller t leaves its method: the body has run, the deferred unlock runs
Leave(t) ==
    /\ vcall[t] # Idle
    /\ LET c == vcall[t]
       IN  /\ CASE c.op = "Add" -> VectorAddCall(c.args[1], c.args[2])
                 [] c.op = "AddBatch" -> VectorAddBatchCall(c.args[1], c.args[2])
                 [] c.op = "Delete" -> VectorDeleteCall(c.args[1])
                 [] c.op = "Search" -> VectorSearchCall(c.args[1])
                 [] c.op = "Len" -> VectorLenCall
                 [] c.op = "Save" -> VectorSaveCall
           /\ mu' = Unlocked(mu, LockMode(c.op))
    /\ vcall' = [vcall EXCEPT ![t] = Idle]
    /\ UNCHANGED nonStoreVars

(***************************************************************************)
(* Scanner.Scan and the head of indexSource.  The scan's goroutine sends    *)
(* what its walk finds on two buffered channels and closes both when it     *)
(* returns; indexSource ranges over files until it is closed and only then  *)
(* over errs.  The buffers are scaled down: filesCap stands for 100,        *)
(* errsCap for 10.                                                          *)
(***************************************************************************)
filesCap == 2

errsCap == 1

\* Scan's goroutine: case files <- FileInfo{...}
ScanSendFile ==
    /\ ~scanClosed
    /\ scanTodo # <<>>
    /\ Head(scanTodo) = "file"
    /\ Len(filesCh) < filesCap
    /\ filesCh' = Append(filesCh, "file")
    /\ scanTodo' = Tail(scanTodo)
    /\ UNCHANGED <<errsCh, scanClosed, scanCtx, scanPc, scanGot>>
    /\ UNCHANGED nonScanVars

\* Scan's goroutine: case errs <- err
ScanSendError ==
    /\ ~scanClosed
    /\ scanTodo # <<>>
    /\ Head(scanTodo) = "error"
    /\ Len(errsCh) < errsCap
    /\ errsCh' = Append(errsCh, "error")
    /\ scanTodo' = Tail(scanTodo)
    /\ UNCHANGED <<filesCh, scanClosed, scanCtx, scanPc, scanGot>>
    /\ UNCHANGED nonScanVars

\* Scan's goroutine returns, at the end of its walk or by case <-ctx.Done():
\* the deferred close(errs) and close(files) run
ScanReturn ==
    /\ ~scanClosed
    /\ scanTodo = <<>> \/ scanCtx
    /\ scanClosed' = TRUE
    /\ UNCHANGED <<scanTodo, filesCh, errsCh, scanCtx, scanPc, scanGot>>
    /\ UNCHANGED nonScanVars

\* the context is cancelled during the scan
ScanCancel ==
    /\ ~scanCtx
    /\ scanPc # "done"
    /\ scanCtx' = TRUE
    /\ UNCHANGED <<scanTodo, filesCh, errsCh, scanClosed, scanPc, scanGot>>
    /\ UNCHANGED nonScanVars

\* indexSource: for f := range files
CollectFile ==
    /\ scanPc = "files"
    /\ \/ /\ filesCh # <<>>
          /\ filesCh' = Tail(filesCh)
          /\ scanGot' = [scanGot EXCEPT !.files = @ + 1]
          /\ scanPc' = scanPc
       \/ /\ filesCh = <<>>
          /\ scanClosed
          /\ scanPc' = "errs"
          /\ UNCHANGED <<filesCh, scanGot>>
    /\ UNCHANGED <<scanTodo, errsCh, scanClosed, scanCtx>>
    /\ UNCHANGED nonScanVars

\* indexSource: for err := range scanErrs
DrainError ==
    /\ scanPc = "errs"
    /\ \/ /\ errsCh # <<>>
          /\ errsCh' = Tail(errsCh)
          /\ scanGot' = [scanGot EXCEPT !.errors = @ + 1]
          /\ scanPc' = scanPc
       \/ /\ errsCh = <<>>
          /\ scanClosed
          /\ scanPc' = "done"
          /\ UNCHANGED <<errsCh, scanGot>>
    /\ UNCHANGED <<scanTodo, filesCh, scanClosed, scanCtx>>
    /\ UNCHANGED nonScanVars

(***************************************************************************)
(* Watcher: handleEvent queues a path with the time of the event,          *)
(* processPending picks the queued paths that have settled under the       *)
(* mutex and dispatches them to the Indexer after releasing it.            *)
(***************************************************************************)
debounceTime == 2

WatchedPaths == MarkdownPaths

\* fsnotify operations; "createdir" is a Create of a directory
EventOps == {"write", "create", "createdir", "rename", "remove", "chmod"}

NoEvent == 0 - 1

\* handleEvent queues the path
Queues(op) == op \in {"write", "create", "rename", "remove"}

\* time passes
Tick ==
    /\ UNCHANGED <<ixVars, nonWatchVars>>
    /\ clock < MaxClock
    /\ clock' = clock + 1
    /\ UNCHANGED <<pending, ready, lastEvent, inBurst, removeSeen, dispatched>>

\* Watcher.handleEvent
handleEventCall(path, op) ==
    /\ IF Queues(op)
       THEN /\ pending' = [p \in DOMAIN pending \cup {path} |->
                             IF p = path THEN clock ELSE pending[p]]
            /\ lastEvent' = [lastEvent EXCEPT ![path] = clock]
            /\ inBurst' = [inBurst EXCEPT ![path] =
                              /\ lastEvent[path] # NoEvent
                              /\ clock - lastEvent[path] < debounceTime]
       ELSE UNCHANGED <<pending, lastEvent, inBurst>>
    /\ removeSeen' = [removeSeen EXCEPT ![path] = @ \/ op = "remove"]
    /\ UNCHANGED <<clock, ready, dispatched>>

\* a processPending that picks no path
settledNone(p, now) == {}

\* a processPending that picks every queued path
settledAll(p, now) == DOMAIN p

\* processPending: the queued paths whose last change is debounceTime old
settled(p, now) == {path \in DOMAIN p : now - p[path] >= debounceTime}

\* Watcher.processPending, under the mutex: pick the settled paths and
\* delete them from pending
processPendingCall ==
    /\ ready = <<>>
    /\ settled(pending, clock) # {}
    /\ ready' \in Orderings(settled(pending, clock), Cardinality(settled(pending, clock)))
    /\ Len(ready') = Cardinality(settled(pending, clock))
    /\ pending' = [p \in DOMAIN pending \ settled(pending, clock) |-> pending[p]]
    /\ UNCHANGED <<clock, lastEvent, inBurst, removeSeen, dispatched>>

\* a watcher that goes by the events it has seen and not by the disk
statByEvents(f, path) == ~removeSeen[path]

\* os.Stat(path) does not answer IsNotExist
stat(f, path) == f[path].exists

\* Watcher.processPending, after the mutex: the next picked path goes to
\* Indexer.RemoveFile when os.Stat finds no file, else to Indexer.IndexFile
dispatchCall ==
    /\ ready # <<>>
    /\ LET path == Head(ready)
       IN  /\ IF stat(fs, path) THEN IndexFileCall(path) ELSE RemoveFileCall(path)
           /\ dispatched' = <<[path |-> path,
                               op |-> IF stat(fs, path) THEN "index_file" ELSE "remove_file",
                               age |-> clock - lastEvent[path],
                               queued |-> path \in DOMAIN pending,
                               removed |-> removeSeen[path]]>>
           /\ removeSeen' = [removeSeen EXCEPT ![path] = FALSE]
    /\ ready' = Tail(ready)
    /\ UNCHANGED <<clock, pending, lastEvent, inBurst>>

\* the Watcher's steps where its goroutines are not told apart
handleEvent(path, op) == UNCHANGED <<ixVars, nonWatchVars>> /\ handleEventCall(path, op)

processPending == UNCHANGED <<ixVars, nonWatchVars>> /\ processPendingCall

dispatch == UNCHANGED nonWatchVars /\ dispatchCall

(***************************************************************************)
(* Watcher.Start and Watcher.debounceLoop as two goroutines under a        *)
(* context.  A select with several ready cases takes any of them.          *)
(***************************************************************************)
\* the context is cancelled
CancelCtx ==
    /\ ~ctxDone
    /\ ctxDone' = TRUE
    /\ UNCHANGED <<wdone, subscription, startPc, loopPc>>
    /\ UNCHANGED <<ixVars, watchVars, nonRunVars>>

\* Start, case event := <-w.watcher.Events: handleEvent
StartEvent(path, op) ==
    /\ startPc = "select"
    /\ subscription = "open"
    /\ clock + debounceTime <= MaxClock
    /\ handleEventCall(path, op)
    /\ UNCHANGED <<ixVars, runVars, nonRunVars>>

\* Start, case <-ctx.Done(): close(w.done); return w.watcher.Close()
StartDone ==
    /\ startPc = "select"
    /\ ctxDone
    /\ wdone' = TRUE
    /\ subscription' = "closed"
    /\ startPc' = "returned"
    /\ UNCHANGED <<ctxDone, loopPc>>
    /\ UNCHANGED <<ixVars, watchVars, nonRunVars>>

\* a loop that hears of no cancellation
loopNeverDone(c, d) == FALSE

\* debounceLoop, cases <-ctx.Done() and <-w.done are ready
loopDone(c, d) == c \/ d

\* debounceLoop, case <-ticker.C: processPending picks the settled paths
LoopTick ==
    /\ loopPc = "select"
    /\ processPendingCall
    /\ loopPc' = "processing"
    /\ UNCHANGED <<ctxDone, wdone, subscription, startPc>>
    /\ UNCHANGED <<ixVars, nonRunVars>>

\* processPending hands the next picked path to the Indexer; after the last
\* one debounceLoop is back at its select
LoopDispatch ==
    /\ loopPc = "processing"
    /\ dispatchCall
    /\ loopPc' = IF Len(ready) = 1 THEN "select" ELSE "processing"
    /\ UNCHANGED <<ctxDone, wdone, subscription, startPc>>
    /\ UNCHANGED nonRunVars

\* debounceLoop, case <-ctx.Done() or <-w.done: return
LoopDone ==
    /\ loopPc = "select"
    /\ loopDone(ctxDone, wdone)
    /\ loopPc' = "returned"
    /\ UNCHANGED <<ctxDone, wdone, subscription, startPc>>
    /\ UNCHANGED <<ixVars, watchVars, nonRunVars>>

(***************************************************************************)
(* ParseQuery.  A string is the sequence of its pieces; a piece is a run   *)
(* of characters that no keyword of the parser cuts: a word, a keyword     *)
(* phrase, or one space.                                                   *)
(***************************************************************************)
\* the pieces queries are made of
Pieces == {" ", "x", "summarize", "in my notes", "in pdf", "s",
           "today", "TODAY", "last week"}

\* strings.ToLower
ToLower(s) == [i \in 1..Len(s) |-> IF s[i] = "TODAY" THEN "today" ELSE s[i]]

\* strings.HasPrefix
HasPrefix(s, p) == Len(s) >= Len(p) /\ SubSeq(s, 1, Len(p)) = p

\* strings.Index, counted from 1; 0 when sub does not occur
Index(s, sub) ==
    LET at == {i \in 1..(Len(s) - Len(sub) + 1) : SubSeq(s, i, i + Len(sub) - 1) = sub}
    IN  IF at = {} THEN 0 ELSE MinOf(at)

\* strings.Contains
Contains(s, sub) == Index(s, sub) # 0

\* strings.Replace(s, old, "", 1)
Replace(s, old) ==
    IF ~Contains(s, old) THEN s
    ELSE SubSeq(s, 1, Index(s, old) - 1) \o SubSeq(s, Index(s, old) + Len(old), Len(s))

\* strings.TrimPrefix
TrimPrefix(s, p) == IF HasPrefix(s, p) THEN SubSeq(s, Len(p) + 1, Len(s)) ELSE s

\* unicode.IsSpace
IsSpace(c) == c \in {" ", "\n"}

RECURSIVE TrimSpace(_)
\* strings.TrimSpace
TrimSpace(s) ==
    IF s = <<>> THEN s
    ELSE IF IsSpace(s[1]) THEN TrimSpace(Tail(s))
    ELSE IF IsSpace(s[Len(s)]) THEN TrimSpace(SubSeq(s, 1, Len(s) - 1))
    ELSE s

AnswerPrefixes == {<<"what", " ">>, <<"how", " ">>, <<"why", " ">>, <<"when", " ">>,
                   <<"who", " ">>, <<"tell me", " ">>}

\* sourceKeywords, a map: keyword -> source
sourceKeywords ==
    (<<"in my notes">> :> "markdown") @@ (<<"in my emails">> :> "email") @@
    (<<"in emails">> :> "email") @@ (<<"from browser">> :> "browser") @@
    (<<"in browser">> :> "browser") @@ (<<"from clipboard">> :> "clipboard") @@
    (<<"in pdf", "s">> :> "pdf") @@ (<<"in pdf">> :> "pdf")

\* timeKeywords, a slice
timeKeywords ==
    << <<"last week">>, <<"last month">>, <<"yesterday">>, <<"today">>,
       <<"this week">>, <<"this month">>, <<"last year">> >>

\* the first keyword of the slice that lower contains, <<>> when none
FirstKeyword(keywords, lower) ==
    LET at == {i \in 1..Len(keywords) : Contains(lower, keywords[i])}
    IN  IF at = {} THEN <<>> ELSE <<keywords[MinOf(at)]>>

\* ParseQuery after the loop over sourceKeywords stopped at keyword, or ran
\* to its end when keyword is <<>>
ParseQueryWith(query, keyword) ==
    LET trimmed == TrimSpace(query)
        lower == ToLower(trimmed)
        summarize == HasPrefix(lower, <<"summarize", " ">>)
                        \/ HasPrefix(lower, <<"summary of", " ">>)
        answer == \E p \in AnswerPrefixes : HasPrefix(lower, p)
        terms1 == IF summarize
                  THEN TrimPrefix(TrimPrefix(lower, <<"summarize", " ">>),
                                  <<"summary of", " ">>)
                  ELSE trimmed
        terms2 == IF keyword = <<>> THEN terms1 ELSE Replace(lower, keyword[1])
        kw == FirstKeyword(timeKeywords, lower)
        terms3 == IF kw = <<>> THEN terms2 ELSE Replace(terms2, kw[1])
    IN  [Original |-> trimmed,
         Intent |-> IF summarize THEN "summarize"
                    ELSE IF answer THEN "answer" ELSE "search",
         SearchTerms |-> TrimSpace(terms3),
         SourceFilter |-> IF keyword = <<>> THEN "" ELSE sourceKeywords[keyword[1]],
         TimeFilter |-> IF kw = <<>> THEN <<>> ELSE kw[1]]

\* ParseQuery: the loop over the map sourceKeywords visits the keywords in
\* an order that varies from run to run and stops at the first it finds
ParseQuery(query) ==
    LET found == {k \in DOMAIN sourceKeywords : Contains(ToLower(TrimSpace(query)), k)}
    IN  IF found = {}
        THEN {ParseQueryWith(query, <<>>)}
        ELSE {ParseQueryWith(query, <<k>>) : k \in found}

\* a caller parses the query
ParseQueryCall ==
    /\ UNCHANGED nonParseVars
    /\ pparsed' \in {<<r>> : r \in ParseQuery(pquery)}
    /\ pquery' = pquery

(***************************************************************************)
(* The tables collections and document_tags of the catalog (DB).  A        *)
(* statement is taken to fail only on a constraint of the schema.          *)
(***************************************************************************)
CollectionIds == {"c1", "c2"}
CollectionNames == {"n1", "n2", "n3"}
\* what generateID returns
GeneratedIds == {"g1"}
\* the documents of the catalog, and the tags put on them
TagDocs == {IdOf("a"), IdOf("b")}
TagNames == {"t1", "t2"}

\* a uniqueness check that knows of the primary key only
UniqueById(rows) ==
    \A r1, r2 \in rows : r1.id = r2.id => r1 = r2

\* collections: id TEXT PRIMARY KEY, name TEXT NOT NULL UNIQUE
Unique(rows) ==
    \A r1, r2 \in rows : (r1.id = r2.id \/ r1.name = r2.name) => r1 = r2

DbResult(op, args, err) ==
    [op |-> op, args |-> args, err |-> err,
     before |-> [collections |-> collections, tags |-> tags]]

\* DB.CreateCollection; id is "" when the caller leaves the ID empty
CreateCollection(id, name) ==
    /\ UNCHANGED nonDbVars
    /\ \E cid \in (IF id = "" THEN GeneratedIds ELSE {id}) :
         LET rows == collections \cup {[id |-> cid, name |-> name]}
             ok == [id |-> cid, name |-> name] \notin collections /\ Unique(rows)
         IN  /\ collections' = IF ok THEN rows ELSE collections
             /\ dbret' = <<DbResult("CreateCollection", <<id, name>>,
                                    IF ok THEN "" ELSE "ErrCollectionExists")>>
    /\ tags' = tags

\* DB.RenameCollection
RenameCollection(id, newName) ==
    /\ UNCHANGED nonDbVars
    /\ LET rows == {IF r.id = id THEN [r EXCEPT !.name = newName] ELSE r : r \in collections}
           ok == Cardinality(rows) = Cardinality(collections) /\ Unique(rows)
       IN  /\ collections' = IF ok THEN rows ELSE collections
           /\ dbret' = <<DbResult("RenameCollection", <<id, newName>>,
                                  IF ok THEN "" ELSE "ErrCollectionExists")>>
    /\ tags' = tags

\* DB.DeleteCollection
DeleteCollection(id) ==
    /\ UNCHANGED nonDbVars
    /\ collections' = {r \in collections : r.id # id}
    /\ dbret' = <<DbResult("DeleteCollection", <<id>>,
                           IF collections' = collections THEN "ErrNotFound" ELSE "")>>
    /\ tags' = tags

\* DB.DeleteCollectionByName
DeleteCollectionByName(name) ==
    /\ UNCHANGED nonDbVars
    /\ collections' = {r \in collections : r.name # name}
    /\ dbret' = <<DbResult("DeleteCollectionByName", <<name>>,
                           IF collections' = collections THEN "ErrNotFound" ELSE "")>>
    /\ tags' = tags

\* INSERT OR IGNORE INTO document_tags: PRIMARY KEY (document_id, tag)
InsertTag(rows, doc, tag, manual) ==
    IF \E r \in rows : r.doc = doc /\ r.tag = tag
    THEN rows
    ELSE rows \cup {[doc |-> doc, tag |-> tag, manual |-> manual]}

\* DB.AddTag
AddTag(doc, tag) ==
    /\ UNCHANGED nonDbVars
    /\ tags' = InsertTag(tags, doc, tag, TRUE)
    /\ dbret' = <<DbResult("AddTag", <<doc, tag>>, "")>>
    /\ collections' = collections

\* DB.AddAutoTag
AddAutoTag(doc, tag) ==
    /\ UNCHANGED nonDbVars
    /\ tags' = InsertTag(tags, doc, tag, FALSE)
    /\ dbret' = <<DbResult("AddAutoTag", <<doc, tag>>, "")>>
    /\ collections' = collections

\* a delete that does not look at the column manual
removedAny(rows, doc, tag) ==
    {r \in rows : r.doc = doc /\ r.tag = tag}

\* the rows of DELETE FROM document_tags WHERE document_id = ? AND tag = ?
\* AND manual = 1
removed(rows, doc, tag) ==
    {r \in rows : r.doc = doc /\ r.tag = tag /\ r.manual}

\* DB.RemoveTag
RemoveTag(doc, tag) ==
    /\ UNCHANGED nonDbVars
    /\ tags' = tags \ removed(tags, doc, tag)
    /\ dbret' = <<DbResult("RemoveTag", <<doc, tag>>,
                           IF removed(tags, doc, tag) = {} THEN "ErrNotFound" ELSE "")>>
    /\ collections' = collections

(***************************************************************************)
(* The streaming call of the answer generator (generate_answer_stream,     *)
(* LLMClient.GenerateStream): the response is a sequence of frames         *)
(* {response, done}, each frame is handed to the sink, and the call        *)
(* succeeds when the stream ends with done = true.                         *)
(***************************************************************************)
Tokens == {"Hello", "!"}

Frame(token, done) == [response |-> token, done |-> done]

\* the responses of the LLM server: done is set on the last frame, or on
\* none when the response is cut short
Streams ==
    UNION {{[i \in 1..n |-> Frame(ts[i], i = n /\ complete)] : ts \in [1..n -> Tokens]} :
             n \in 0..MaxFrames, complete \in BOOLEAN}

\* a sink call that never tells the end
sinkCallOpen(frame) == [token |-> frame.response, done |-> FALSE]

\* sink(token, done) for a frame
sinkCall(frame) == [token |-> frame.response, done |-> frame.done]

\* the call reads the next frame and hands it to the sink
readFrame ==
    /\ UNCHANGED nonStreamVars
    /\ gret = ""
    /\ unread # <<>>
    /\ sunk' = Append(sunk, sinkCall(Head(unread)))
    /\ unread' = Tail(unread)
    /\ UNCHANGED <<frames, gret>>

\* a call that succeeds however the stream ends
streamResultOk(stream) == "ok"

\* success when the stream ended with done = true, a typed error otherwise
streamResult(stream) ==
    IF stream # <<>> /\ stream[Len(stream)].done THEN "ok" ELSE "ErrStreamIncomplete"

\* the stream ends and the call returns
streamEnd ==
    /\ UNCHANGED nonStreamVars
    /\ gret = ""
    /\ unread = <<>>
    /\ gret' = streamResult(frames)
    /\ UNCHANGED <<frames, unread, sunk>>

(***************************************************************************)
(* chunker.Split.  A text is the sequence of its characters (one byte      *)
(* each); positions count from 0 as in the code, text[a:b] is              *)
(* Slice(text, a, b).                                                      *)
(***************************************************************************)
DefaultChunkSize == 512
DefaultOverlap == 64

Chars == {"a", "B", ".", " ", "\n"}
ChunkSizes == {0, 2, 4}
Overlaps == {0 - 1, 0, 1, 4}

\* unicode.IsUpper
IsUpper(c) == c = "B"

\* text[a:b]
Slice(text, a, b) == SubSeq(text, a + 1, b)

Chunk(content, startPos, endPos) ==
    [Content |-> content, StartPos |-> startPos, EndPos |-> endPos]

segment(content, startPos, endPos) ==
    [content |-> content, startPos |-> startPos, endPos |-> endPos]

RECURSIVE splitParagraphsFrom(_, _, _)
\* splitParagraphs: the loop, from position start on
splitParagraphsFrom(text, start, segments) ==
    IF start >= Len(text) THEN segments
    ELSE LET end == Index(Slice(text, start, Len(text)), <<"\n", "\n">>) - 1
         IN  IF end = 0 - 1
             THEN Append(segments,
                         segment(TrimSpace(Slice(text, start, Len(text))), start, Len(text)))
             ELSE LET para == TrimSpace(Slice(text, start, end + start))
                  IN  splitParagraphsFrom(text, end + start + 2,
                          IF para # <<>>
                          THEN Append(segments, segment(para, start, end + start))
                          ELSE segments)

splitParagraphs(text) == splitParagraphsFrom(text, 0, <<>>)

\* findSentences: runes[i] ends a sentence
SentenceEnd(runes, i) ==
    /\ runes[i + 1] \in {".", "!", "?"}
    /\ \/ i + 1 >= Len(runes)
       \/ i + 2 < Len(runes) /\ IsSpace(runes[i + 2]) /\ IsUpper(runes[i + 3])

RECURSIVE SkipSpace(_, _)
\* findSentences: for i+1 < len(runes) && unicode.IsSpace(runes[i+1]) { i++ }
SkipSpace(runes, i) ==
    IF i + 1 < Len(runes) /\ IsSpace(runes[i + 2]) THEN SkipSpace(runes, i + 1) ELSE i

RECURSIVE findSentencesFrom(_, _, _, _)
\* findSentences: the loop at index i, the current sentence starting at start
findSentencesFrom(runes, i, start, sentences) ==
    IF i >= Len(runes)
    THEN IF start < Len(runes) /\ TrimSpace(Slice(runes, start, Len(runes))) # <<>>
         THEN Append(sentences,
                     segment(TrimSpace(Slice(runes, start, Len(runes))), start, Len(runes)))
         ELSE sentences
    ELSE IF SentenceEnd(runes, i)
    THEN LET sen == TrimSpace(Slice(runes, start, i + 1))
             j == SkipSpace(runes, i)
         IN  findSentencesFrom(runes, j + 1, j + 1,
                 IF sen # <<>> THEN Append(sentences, segment(sen, start, i + 1))
                 ELSE sentences)
    ELSE findSentencesFrom(runes, i + 1, start, sentences)

findSentences(text) == findSentencesFrom(text, 0, 0, <<>>)

\* the chunk of the text collected in current, none when it is blank
Flushed(cks, current, startPos) ==
    IF TrimSpace(current) # <<>>
    THEN Append(cks, Chunk(TrimSpace(current), startPos, startPos + Len(current)))
    ELSE cks

RECURSIVE sentenceLoop(_, _, _, _, _, _)
\* splitBySentences: the loop over the sentences and the final flush
sentenceLoop(sentences, basePos, opts, cks, current, currentStart) ==
    IF sentences = <<>> THEN Flushed(cks, current, basePos + currentStart)
    ELSE LET sen == sentences[1]
             projectedLen == Len(current) + (IF Len(current) > 0 THEN 1 ELSE 0)
                                + Len(sen.content)
             full == projectedLen > opts.ChunkSize /\ Len(current) > 0
             cur == IF full THEN <<>> ELSE current
         IN  sentenceLoop(Tail(sentences), basePos, opts,
                 IF full THEN Flushed(cks, current, basePos + currentStart) ELSE cks,
                 IF cur = <<>> THEN sen.content ELSE cur \o <<" ">> \o sen.content,
                 IF cur = <<>> THEN sen.startPos ELSE currentStart)

splitBySentences(text, basePos, opts) ==
    IF findSentences(text) = <<>>
    THEN <<Chunk(text, basePos, basePos + Len(text))>>
    ELSE sentenceLoop(findSentences(text), basePos, opts, <<>>, <<>>, 0)

RECURSIVE skipWord(_, _)
skipWord(text, pos) ==
    IF pos < Len(text) /\ ~IsSpace(text[pos + 1]) THEN skipWord(text, pos + 1) ELSE pos

RECURSIVE skipSpaces(_, _)
skipSpaces(text, pos) ==
    IF pos < Len(text) /\ IsSpace(text[pos + 1]) THEN skipSpaces(text, pos + 1) ELSE pos

\* findWordBoundary(text, pos, true)
findWordBoundary(text, pos) ==
    IF pos >= Len(text) THEN Len(text)
    ELSE IF pos <= 0 THEN 0
    ELSE skipSpaces(text, skipWord(text, pos))

\* applyOverlap: where the overlap of chunk i starts
overlapStart(fullText, cks, overlap, i) ==
    findWordBoundary(fullText,
        MaxOf({cks[i - 1].EndPos - overlap, cks[i - 1].StartPos, 0}))

\* a slice expression text[a:b] that makes the program panic
BadSlice(text, a, b) == a > b \/ b > Len(text)

\* applyOverlap: chunk i of the result, i > 1
overlapped(fullText, cks, overlap, i) ==
    LET from == overlapStart(fullText, cks, overlap, i)
        overlapText == TrimSpace(Slice(fullText, from, cks[i - 1].EndPos))
        mainText == TrimSpace(Slice(fullText, cks[i].StartPos, cks[i].EndPos))
    IN  Chunk(TrimSpace(overlapText \o <<" ">> \o mainText), from, cks[i].EndPos)

\* what Split and its helpers return: the chunks, or a panic
Chunks(cks) == [panic |-> FALSE, chunks |-> cks]
Panic == [panic |-> TRUE, chunks |-> <<>>]

\* applyOverlap; it panics when a slice is out of range
applyOverlap(fullText, cks, overlap) ==
    IF Len(cks) <= 1 THEN Chunks(cks)
    ELSE IF \E i \in 2..Len(cks) :
              \/ BadSlice(fullText, overlapStart(fullText, cks, overlap, i),
                          cks[i - 1].EndPos)
              \/ BadSlice(fullText, cks[i].StartPos, cks[i].EndPos)
    THEN Panic
    ELSE Chunks([i \in 1..Len(cks) |->
                   IF i = 1 THEN cks[1] ELSE overlapped(fullText, cks, overlap, i)])

RECURSIVE paragraphLoop(_, _, _, _, _)
\* mergeAndSplit: the loop over the paragraphs and the final flush
paragraphLoop(paragraphs, opts, cks, current, currentStart) ==
    IF paragraphs = <<>> THEN Flushed(cks, current, currentStart)
    ELSE LET para == paragraphs[1]
         IN  IF Len(para.content) > opts.ChunkSize
             THEN paragraphLoop(Tail(paragraphs), opts,
                      Flushed(cks, current, currentStart)
                          \o splitBySentences(para.content, para.startPos, opts),
                      <<>>, 0 - 1)
             ELSE LET projectedLen == Len(current) + (IF Len(current) > 0 THEN 2 ELSE 0)
                                         + Len(para.content)
                      full == projectedLen > opts.ChunkSize /\ Len(current) > 0
                      cur == IF full THEN <<>> ELSE current
                      curStart == IF full THEN 0 - 1 ELSE currentStart
                  IN  paragraphLoop(Tail(paragraphs), opts,
                          IF full THEN Flushed(cks, current, currentStart) ELSE cks,
                          IF cur = <<>> THEN para.content
                          ELSE cur \o <<"\n", "\n">> \o para.content,
                          IF curStart = 0 - 1 THEN para.startPos ELSE curStart)

mergeAndSplit(fullText, paragraphs, opts) ==
    LET cks == paragraphLoop(paragraphs, opts, <<>>, <<>>, 0 - 1)
    IN  IF opts.Overlap > 0 /\ Len(cks) > 1
        THEN applyOverlap(fullText, cks, opts.Overlap)
        ELSE Chunks(cks)

\* Split: the options after their validation
Validated(opts) ==
    LET size == IF opts.ChunkSize <= 0 THEN DefaultChunkSize ELSE opts.ChunkSize
        over == IF opts.Overlap < 0 THEN 0 ELSE opts.Overlap
    IN  [ChunkSize |-> size, Overlap |-> IF over >= size THEN size \div 4 ELSE over]

\* chunker.Split: the chunks, none for nil
Split(input, options) ==
    LET text == TrimSpace(input)
        opts == Validated(options)
    IN  IF text = <<>> THEN Chunks(<<>>)
        ELSE IF Len(text) <= opts.ChunkSize THEN Chunks(<<Chunk(text, 0, Len(text))>>)
        ELSE mergeAndSplit(text, splitParagraphs(text), opts)

\* a caller splits the text
SplitCall ==
    /\ UNCHANGED nonChunkVars
    /\ cret = <<>>
    /\ cret' = <<Split(ctext, copts)>>
    /\ UNCHANGED <<ctext, copts>>

(***************************************************************************)
(* Specifications.  Spec runs IndexAll and IndexFile over markdown files   *)
(* whose content is one chunk long; SpecFile runs IndexFile and RemoveFile *)
(* over files of every content and over documents filed into a collection; *)
(* SpecSearch runs the hybrid searcher over every small index.             *)
(***************************************************************************)
InitIndexer ==
    /\ fs = [p \in Paths |-> NoFile]
    /\ docs = <<>>
    /\ chunks = {}
    /\ members = {}
    /\ fti = {}
    /\ vi = <<>>
    /\ pc = "idle"
    /\ cancelled = FALSE
    /\ srcIdx = 1
    /\ allFiles = <<>>
    /\ sent = 0
    /\ jobs = <<>>
    /\ jobsClosed = FALSE
    /\ wfile = [w \in WorkerIds |-> <<>>]
    /\ wexit = [w \in WorkerIds |-> FALSE]
    /\ processed = 0
    /\ indexed = 0
    /\ errors = 0
    /\ srcStats = [total |-> 0, indexed |-> 0, errors |-> 0]
    /\ stats = ZeroStats
    /\ ret = <<>>
    /\ events = <<>>
    /\ calls = <<>>
    /\ before = <<>>

\* no searcher has been built
InitSearcher ==
    /\ hybrid = [vectors |-> FALSE, embedder |-> FALSE, weight |-> 0]
    /\ catalog = {}
    /\ ranking = <<>>
    /\ vecRanking = <<>>
    /\ out = <<>>
    /\ trace = <<>>

\* a new embedder over a new cache file
InitEmbedder ==
    /\ ecache = <<>>
    /\ dimensions = 0
    /\ elog = <<>>

\* a new vector store at a path that holds no file
EmptyVectorStore ==
    /\ graph = EmptyBag
    /\ disk = <<>>
    /\ vpanic = FALSE
    /\ vlive = {}
    /\ vout = <<>>
    /\ vop = ""

\* the vector store where it is not exercised
InitVectorStore == EmptyVectorStore /\ lenient = FALSE

\* the mutex is free and no caller is inside the vector store
InitLock ==
    /\ mu = [writer |-> FALSE, readers |-> 0]
    /\ vcall = [t \in Callers |-> Idle]

\* Start and debounceLoop run, the context is live
InitRun ==
    /\ ctxDone = FALSE
    /\ wdone = FALSE
    /\ subscription = "open"
    /\ startPc = "select"
    /\ loopPc = "select"

\* no scan runs
InitScan ==
    /\ scanTodo = <<>>
    /\ filesCh = <<>>
    /\ errsCh = <<>>
    /\ scanClosed = TRUE
    /\ scanCtx = FALSE
    /\ scanPc = "done"
    /\ scanGot = [files |-> 0, errors |-> 0]

\* no text is being split
InitChunker ==
    /\ ctext = <<>>
    /\ copts = [ChunkSize |-> DefaultChunkSize, Overlap |-> DefaultOverlap]
    /\ cret = <<>>

\* no streaming call runs
InitStream ==
    /\ frames = <<>>
    /\ unread = <<>>
    /\ sunk = <<>>
    /\ gret = "idle"

\* the tables are empty
InitDb ==
    /\ collections = {}
    /\ tags = {}
    /\ dbret = <<>>

\* no query is being parsed
InitParser ==
    /\ pquery = <<>>
    /\ pparsed = <<>>

\* NewWatcher
InitWatcher ==
    /\ clock = 0
    /\ pending = <<>>
    /\ ready = <<>>
    /\ lastEvent = [p \in WatchedPaths |-> NoEvent]
    /\ inBurst = [p \in WatchedPaths |-> FALSE]
    /\ removeSeen = [p \in WatchedPaths |-> FALSE]
    /\ dispatched = <<>>

Init ==
    /\ InitIndexer
    /\ embedEnabled \in BOOLEAN
    /\ InitSearcher
    /\ InitEmbedder
    /\ InitVectorStore
    /\ InitWatcher
    /\ InitParser
    /\ InitDb
    /\ InitStream
    /\ InitChunker
    /\ InitLock
    /\ InitRun
    /\ InitScan

Next ==
    \/ \E p \in MarkdownPaths, t \in 1..MaxTime : WriteFile(p, t, 1)
    \/ \E p \in MarkdownPaths : DeleteFile(p)
    \/ IndexAllStart
    \/ Cancel
    \/ ScanFiles(0)
    \/ FeedSend
    \/ FeedCancel
    \/ FeedClose
    \/ \E w \in WorkerIds : WorkerRecv(w)
    \/ \E w \in WorkerIds : WorkerProcess(w)
    \/ Join
    \/ JoinCancelled
    \/ \E p \in MarkdownPaths : IndexFile(p)
    \/ Return

Spec == Init /\ [][Next]_vars

NextFile ==
    \/ \E c \in 0..MaxChunks : WriteFile("a", 1, c)
    \/ WriteFile("p", 1, 1)
    \/ \E p \in {"a", "p"} : DeleteFile(p)
    \/ AddToCollection(IdOf("a"))
    \/ \E p \in Paths : IndexFile(p)
    \/ \E p \in Paths : RemoveFile(p)
    \/ Return

SpecFile == Init /\ [][NextFile]_vars

\* IndexAll, IndexFile and RemoveFile called one after another on changing files
NextMaintain ==
    \/ \E p \in MarkdownPaths, t \in 1..MaxTime : WriteFile(p, t, 1)
    \/ \E p \in MarkdownPaths : DeleteFile(p)
    \/ IndexAllStart
    \/ Cancel
    \/ ScanFiles(0)
    \/ FeedSend
    \/ FeedCancel
    \/ FeedClose
    \/ \E w \in WorkerIds : WorkerRecv(w)
    \/ \E w \in WorkerIds : WorkerProcess(w)
    \/ Join
    \/ JoinCancelled
    \/ \E p \in MarkdownPaths : IndexFile(p)
    \/ \E p \in MarkdownPaths : RemoveFile(p)
    \/ Return

SpecMaintain == Init /\ [][NextMaintain]_vars

\* the Catalog is written by the Indexer and by callers of UpsertDocument
NextPut ==
    \/ \E t \in 1..MaxTime : WriteFile("a", t, 1)
    \/ DeleteFile("a")
    \/ \E id \in DocumentIds, p \in MarkdownPaths : PutDocument(id, p)
    \/ IndexFile("a")
    \/ RemoveFile("a")
    \/ Return

SpecPut == Init /\ [][NextPut]_vars

\* index_all over sources whose Scan delivers up to MaxScanErrors errors
NextScan ==
    \/ WriteFile("a", 1, 1)
    \/ IndexAllStart
    \/ \E k \in 0..MaxScanErrors : ScanFiles(k)
    \/ FeedSend
    \/ FeedClose
    \/ \E w \in WorkerIds : WorkerRecv(w)
    \/ \E w \in WorkerIds : WorkerProcess(w)
    \/ Join
    \/ Return

SpecScan == Init /\ [][NextScan]_vars

\* the searcher is built over any index, the Indexer is not running
InitSearch ==
    /\ InitIndexer
    /\ embedEnabled = FALSE
    /\ hybrid \in [vectors : BOOLEAN, embedder : BOOLEAN, weight : 0..WeightDen]
    /\ catalog \in SUBSET SearchIds
    /\ ranking \in Orderings(SearchIds, MaxHits)
    /\ vecRanking \in Orderings(SearchKeys, MaxHits)
    /\ out = <<>>
    /\ trace = <<>>
    /\ InitEmbedder
    /\ InitVectorStore
    /\ InitWatcher
    /\ InitParser
    /\ InitDb
    /\ InitStream
    /\ InitChunker
    /\ InitLock
    /\ InitRun
    /\ InitScan

NextSearch ==
    \/ \E q \in Queries, limit \in Limits : Search(q, limit)
    \/ SearchReturn

SpecSearch == InitSearch /\ [][NextSearch]_vars

\* the cached embedder is used on its own, over a new cache file or over one
\* an earlier process has left
InitEmbed ==
    /\ InitIndexer
    /\ embedEnabled = FALSE
    /\ InitSearcher
    /\ ecache \in {<<>>, put(<<>>, contentHash("s"), <<258>>)}
    /\ dimensions = 0
    /\ elog = <<>>
    /\ InitVectorStore
    /\ InitWatcher
    /\ InitParser
    /\ InitDb
    /\ InitStream
    /\ InitChunker
    /\ InitLock
    /\ InitRun
    /\ InitScan

NextEmbed ==
    \/ \E text \in Texts : CachedEmbed(text)
    \/ \E texts \in UNION {[1..n -> Texts] : n \in 0..MaxBatch} : CachedEmbedBatch(texts)

SpecEmbed == InitEmbed /\ [][NextEmbed]_vars

\* the vector store is used on its own
InitVector ==
    /\ InitIndexer
    /\ embedEnabled = FALSE
    /\ InitSearcher
    /\ InitEmbedder
    /\ EmptyVectorStore
    /\ lenient \in BOOLEAN
    /\ InitWatcher
    /\ InitParser
    /\ InitDb
    /\ InitStream
    /\ InitChunker
    /\ InitLock
    /\ InitRun
    /\ InitScan

NextVector ==
    \/ \E key \in StoreKeys, vector \in StoreVectors : VectorAdd(key, vector)
    \/ \E n \in 0..MaxAdd :
         \E keys \in [1..n -> StoreKeys],
            vectors \in [1..n -> StoreVectors] \cup [1..n - 1 -> StoreVectors] :
           VectorAddBatch(keys, vectors)
    \/ \E key \in StoreKeys : VectorDelete(key)
    \/ \E n \in 1..MaxAdd : VectorSearch(n)
    \/ VectorSave
    \/ VectorClose
    \/ VectorOpen

SpecVector == InitVector /\ [][NextVector]_vars

\* goroutines call the vector store at the same time
NextLock ==
    \/ \E t \in Callers, c \in VectorCalls : Enter(t, c)
    \/ \E t \in Callers : Leave(t)

SpecLock == Init /\ [][NextLock]_vars

\* indexSource has called Scan on a source whose walk delivers up to MaxScan
\* files and errors
InitScanning ==
    /\ InitIndexer
    /\ embedEnabled = FALSE
    /\ InitSearcher
    /\ InitEmbedder
    /\ InitVectorStore
    /\ InitWatcher
    /\ InitParser
    /\ InitDb
    /\ InitStream
    /\ InitChunker
    /\ InitLock
    /\ InitRun
    /\ scanTodo \in UNION {[1..n -> {"file", "error"}] : n \in 0..MaxScan}
    /\ filesCh = <<>>
    /\ errsCh = <<>>
    /\ scanClosed = FALSE
    /\ scanCtx = FALSE
    /\ scanPc = "files"
    /\ scanGot = [files |-> 0, errors |-> 0]

NextScanning ==
    \/ ScanSendFile
    \/ ScanSendError
    \/ ScanReturn
    \/ ScanCancel
    \/ CollectFile
    \/ DrainError

\* every goroutine that can take a step eventually takes one
SpecScanning ==
    /\ InitScanning
    /\ [][NextScanning]_vars
    /\ WF_vars(ScanSendFile)
    /\ WF_vars(ScanSendError)
    /\ WF_vars(ScanReturn)
    /\ WF_vars(CollectFile)
    /\ WF_vars(DrainError)

\* the watcher runs over an empty directory in which the file a comes and goes
InitWatch ==
    /\ InitIndexer
    /\ embedEnabled = FALSE
    /\ InitSearcher
    /\ InitEmbedder
    /\ InitVectorStore
    /\ InitWatcher
    /\ InitParser
    /\ InitDb
    /\ InitStream
    /\ InitChunker
    /\ InitLock
    /\ InitRun
    /\ InitScan

NextWatch ==
    \/ WriteFile("a", 1, 1)
    \/ DeleteFile("a")
    \/ Tick
    \/ \E path \in WatchedPaths, op \in EventOps : handleEvent(path, op)
    \/ processPending
    \/ dispatch
    \/ Return

SpecWatch == InitWatch /\ [][NextWatch]_vars

\* Start and debounceLoop run over the file a under a context that may be
\* cancelled; every goroutine that can take a step eventually takes one
NextRun ==
    \/ WriteFile("a", 1, 1)
    \/ DeleteFile("a")
    \/ Tick
    \/ CancelCtx
    \/ \E op \in {"write", "remove", "chmod"} : StartEvent("a", op)
    \/ StartDone
    \/ LoopTick
    \/ LoopDispatch
    \/ LoopDone
    \/ Return

\* WF_vars(LoopDispatch) with its enabling condition written out: the step
\* can be taken exactly when debounceLoop is processing and the Indexer is free
FairLoopDispatch ==
    \/ []<>(~(loopPc = "processing" /\ pc = "idle"))
    \/ []<><<LoopDispatch>>_vars

SpecRun ==
    /\ InitWatch
    /\ [][NextRun]_vars
    /\ WF_vars(Tick)
    /\ WF_vars(StartDone)
    /\ WF_vars(LoopTick)
    /\ FairLoopDispatch
    /\ WF_vars(LoopDone)
    /\ WF_vars(Return)

\* a query is parsed, over and again
InitParse ==
    /\ InitIndexer
    /\ embedEnabled = FALSE
    /\ InitSearcher
    /\ InitEmbedder
    /\ InitVectorStore
    /\ InitWatcher
    /\ pquery \in UNION {[1..n -> Pieces] : n \in 0..MaxQuery}
    /\ pparsed = <<>>
    /\ InitDb
    /\ InitStream
    /\ InitChunker
    /\ InitLock
    /\ InitRun
    /\ InitScan

NextParse == ParseQueryCall

SpecParse == InitParse /\ [][NextParse]_vars

\* collections and tags are edited
InitCatalog ==
    /\ InitIndexer
    /\ embedEnabled = FALSE
    /\ InitSearcher
    /\ InitEmbedder
    /\ InitVectorStore
    /\ InitWatcher
    /\ InitParser
    /\ InitDb
    /\ InitStream
    /\ InitChunker
    /\ InitLock
    /\ InitRun
    /\ InitScan

NextCatalog ==
    \/ \E id \in CollectionIds \cup {""}, name \in CollectionNames : CreateCollection(id, name)
    \/ \E id \in CollectionIds, name \in CollectionNames : RenameCollection(id, name)
    \/ \E id \in CollectionIds : DeleteCollection(id)
    \/ \E name \in CollectionNames : DeleteCollectionByName(name)
    \/ \E doc \in TagDocs, tag \in TagNames : AddTag(doc, tag)
    \/ \E doc \in TagDocs, tag \in TagNames : AddAutoTag(doc, tag)
    \/ \E doc \in TagDocs, tag \in TagNames : RemoveTag(doc, tag)

SpecCatalog == InitCatalog /\ [][NextCatalog]_vars

\* a streaming request was opened and the server answers with a stream
InitGenerate ==
    /\ InitIndexer
    /\ embedEnabled = FALSE
    /\ InitSearcher
    /\ InitEmbedder
    /\ InitVectorStore
    /\ InitWatcher
    /\ InitParser
    /\ InitDb
    /\ frames \in Streams
    /\ unread = frames
    /\ sunk = <<>>
    /\ gret = ""
    /\ InitChunker
    /\ InitLock
    /\ InitRun
    /\ InitScan

NextGenerate ==
    \/ readFrame
    \/ streamEnd

SpecGenerate == InitGenerate /\ [][NextGenerate]_vars

\* a text is split with some options
InitSplit ==
    /\ InitIndexer
    /\ embedEnabled = FALSE
    /\ InitSearcher
    /\ InitEmbedder
    /\ InitVectorStore
    /\ InitWatcher
    /\ InitParser
    /\ InitDb
    /\ InitStream
    /\ ctext \in UNION {[1..n -> Chars] : n \in 0..MaxText}
    /\ copts \in [ChunkSize : ChunkSizes, Overlap : Overlaps]
    /\ cret = <<>>
    /\ InitLock
    /\ InitRun
    /\ InitScan

NextSplit == SplitCall

SpecSplit == InitSplit /\ [][NextSplit]_vars

(***************************************************************************)
(* Properties of the Indexer.                                              *)
(***************************************************************************)
Returned(op) == pc = "returned" /\ ret[1].op = op

\* C1: after remove_file(path) succeeds for a document that had chunks,
\* vectors, an FTI entry and a collection membership, the Catalog has no
\* document, chunk or membership row for its id, the FTI has no entry for it
\* and the vector index has no entry keyed by one of its chunk ids.
C1_RemoveFileCascades ==
    (Returned("remove_file") /\ ret[1].err = "")
    => LET old == before[1]
           id == GetDocumentByPath(old.docs, ret[1].path)[1].id
           chunkIds == {x.id : x \in DocChunks(old.chunks, id)}
       IN  (/\ chunkIds # {}
            /\ DocKeys(old.vi, id) # {}
            /\ id \in old.fti
            /\ id \in old.members)
           => /\ id \notin DOMAIN docs
              /\ DocChunks(chunks, id) = {}
              /\ id \notin members
              /\ id \notin fti
              /\ \A key \in chunkIds : key \notin DOMAIN vi

\* C2: after embed_document(d) completes without error (here inside a
\* successful index_file), the number of vector-index entries keyed d.id:<n>
\* equals the number of chunk rows stored for d.id.
C2_VectorsMatchChunks ==
    (Returned("index_file") /\ ret[1].err = "" /\ embedEnabled /\ events = <<>>)
    => LET id == IdOf(ret[1].path)
       IN  Cardinality(DocKeys(vi, id)) = Cardinality(DocChunks(chunks, id))

\* C3: in index_all, a worker that finds the file's stored document by path
\* with modifiedAt >= file.modifiedAt does not parse the file and writes
\* nothing to the Catalog, the FTI or the vector index, and counts the file as
\* indexed and not as an error; when the file's modifiedAt is greater than the
\* stored one it parses the file and, unless a step fails, stores it again.
C3_SkipUnchangedFile ==
    [][\A w \in WorkerIds :
        (/\ wfile[w] # <<>>
         /\ wfile'[w] = <<>>
         /\ Len(calls') > Len(calls)
         /\ calls'[Len(calls) + 1].res = "found")
        => LET file == wfile[w][1]
               stored == docs[CHOOSE i \in DOMAIN docs : docs[i].path = file.path]
               parses == {j \in Len(calls) + 1..Len(calls') : calls'[j].op = "parse"}
           IN  IF stored.modifiedAt >= file.modifiedAt
               THEN /\ parses = {}
                    /\ UNCHANGED <<docs, chunks, members, fti, vi>>
                    /\ indexed' = indexed + 1
                    /\ errors' = errors
               ELSE /\ Cardinality(parses) = 1
                    /\ \A j \in parses :
                         /\ calls'[j].path = file.path
                         /\ calls'[j].res = ""
                            => /\ IdOf(file.path) \in DOMAIN docs'
                               /\ docs'[IdOf(file.path)].modifiedAt = file.modifiedAt
                               /\ docs'[IdOf(file.path)].content = fs[file.path].content
                               /\ IdOf(file.path) \in fti'
      ]_vars

\* one run of index_all skipped an unchanged file and re-indexed a newer one
C3_Witness ==
    /\ Returned("index_all")
    /\ ret[1].err = ""
    /\ ret[1].stats.indexed = 2
    /\ ret[1].stats.errors = 0
    /\ \E i \in 1..Len(calls) :
         /\ calls[i].op = "lookup"
         /\ calls[i].res = "found"
         /\ (i = Len(calls) \/ calls[i + 1].op # "parse")
    /\ \E i \in 1..Len(calls) - 1 :
         /\ calls[i].op = "lookup"
         /\ calls[i].res = "found"
         /\ calls[i + 1].op = "parse"
         /\ calls[i + 1].res = ""

PipelineErrors == {"parse", "store", "index"}

\* C4: while index_all works on a source, errors counts exactly the files
\* whose parse, Catalog write or FTI write failed, each of them was reported
\* once by OnError with its path, and unless the run is cancelled the workers
\* finish having processed every file of the source.
C4_FileErrorsAreLocal ==
    LET s == Sources[srcIdx]
        failed == {i \in 1..Len(calls) :
                     /\ calls[i].op = "parse"
                     /\ calls[i].source = s
                     /\ calls[i].res \in PipelineErrors}
        reported == {j \in 1..Len(events) :
                       /\ events[j].kind = "error"
                       /\ events[j].source = s
                       /\ events[j].what \in PipelineErrors}
        looked == {i \in 1..Len(calls) :
                     calls[i].op = "lookup" /\ calls[i].source = s}
    IN  pc \in {"feed", "wait", "cwait"}
        => /\ errors = Cardinality(failed)
           /\ Cardinality(reported) = errors
           /\ \A i \in failed : \E j \in reported :
                events[j].path = calls[i].path /\ events[j].what = calls[i].res
           /\ indexed + errors = processed
           /\ (pc = "wait" /\ ~cancelled /\ \A w \in WorkerIds : wexit[w])
              => /\ processed = Len(allFiles)
                 /\ \A n \in 1..Len(allFiles) :
                      \E i \in looked : calls[i].path = allFiles[n].path

\* the first of two files failed and the second was indexed all the same
C4_Witness ==
    /\ pc = "wait"
    /\ ~cancelled
    /\ \A w \in WorkerIds : wexit[w]
    /\ Len(allFiles) = 2
    /\ errors = 1
    /\ indexed = 1
    /\ \E i \in 1..Len(calls) :
         /\ calls[i].op = "parse"
         /\ calls[i].path = allFiles[1].path
         /\ calls[i].res \in PipelineErrors

\* C5: when the context is cancelled while index_all still has unprocessed
\* files, index_all returns a cancellation error and stats whose indexedFiles
\* and errors count the files completed before the cancellation.
C5_CancelReturnsPartialStats ==
    (Returned("index_all") /\ cancelled /\ processed < Len(allFiles))
    => LET failed == {i \in 1..Len(calls) :
                        calls[i].op = "parse" /\ calls[i].res # ""}
           looked == {i \in 1..Len(calls) : calls[i].op = "lookup"}
       IN  /\ ret[1].err = "cancelled"
           /\ ret[1].stats.errors = Cardinality(failed)
           /\ ret[1].stats.indexed = Cardinality(looked) - Cardinality(failed)

\* C6: a step of index_all or index_file in which embedding the document
\* fails leaves the document's Catalog row and FTI entry in place, does not
\* increment errors, and counts the file as indexed (index_file returns no
\* error).
C6_EmbedFailureIsNotAnError ==
    [][(/\ Len(events') > Len(events)
        /\ events'[Len(events')].kind = "error"
        /\ events'[Len(events')].what = "embed")
       => LET path == events'[Len(events')].path
          IN  /\ IdOf(path) \in DOMAIN docs'
              /\ docs'[IdOf(path)].content = fs[path].content
              /\ IdOf(path) \in fti'
              /\ errors' = errors
              /\ IF pc = "idle"
                 THEN ret'[1].op = "index_file" /\ ret'[1].err = ""
                 ELSE indexed' = indexed + 1
      ]_vars

\* index_all counted a file as indexed whose embedding had failed
C6_Witness ==
    /\ pc = "wait"
    /\ indexed = 1
    /\ errors = 0
    /\ \E j \in 1..Len(events) :
         /\ events[j].kind = "error"
         /\ events[j].what = "embed"
         /\ IdOf(events[j].path) \in DOMAIN docs
         /\ IdOf(events[j].path) \in fti

\* C7: index_file(path) for a path that can be stat-ed performs no scan and
\* calls parse exactly once.
C7_IndexFileStatsWithoutScan ==
    (Returned("index_file") /\ fs[ret[1].path].exists)
    => /\ {i \in 1..Len(calls) : calls[i].op = "scan"} = {}
       /\ Cardinality({i \in 1..Len(calls) :
                         calls[i].op = "parse" /\ calls[i].path = ret[1].path}) = 1

(***************************************************************************)
(* Properties of the hybrid searcher.                                      *)
(***************************************************************************)
\* res is the full-text index's first limit hits for q, in its order, less
\* the hits the Catalog does not resolve, scored by their BM25 score
IsBm25Result(res, q, limit) ==
    LET hits == FtiHits(q)
        top == 1..Min(limit, Len(hits))
        at(i) == CHOOSE j \in top : hits[j].id = res[i].id
    IN  /\ \A i \in 1..Len(res) :
             /\ res[i].id \in catalog
             /\ \E j \in top : hits[j].id = res[i].id
             /\ res[i].score = hits[at(i)].score
             /\ res[i].bm25Score = hits[at(i)].score
        /\ \A j \in top :
             hits[j].id \in catalog => \E i \in 1..Len(res) : res[i].id = hits[j].id
        /\ \A i1, i2 \in 1..Len(res) : i1 < i2 => at(i1) < at(i2)

Called(op) == {i \in 1..Len(trace) : trace[i].op = op}

\* C8: when the vector leg of a hybrid search fails while every full-text
\* query succeeds, Search returns no error and the result of the BM25-only
\* path for the original query string and limit.
C8_VectorFailureFallsBack ==
    (/\ out # <<>>
     /\ ~NoVectorSearch
     /\ \E i \in Called("embed") : ~trace[i].ok
     /\ \A i \in Called("fti") : trace[i].ok)
    => /\ out[1].err = ""
       /\ IsBm25Result(out[1].results, out[1].q, out[1].limit)
       /\ trace[Len(trace)] = BackendCall("fti", out[1].q, out[1].limit, TRUE)

\* the fallback returned a hit and left out one the Catalog does not resolve
C8_Witness ==
    /\ out # <<>>
    /\ ~NoVectorSearch
    /\ \E i \in Called("embed") : ~trace[i].ok
    /\ \A i \in Called("fti") : trace[i].ok
    /\ out[1].limit = 2
    /\ Len(out[1].results) = 1
    /\ Len(FtiHits(out[1].q)) >= 2

\* C9: when the full-text query of the hybrid path fails, Search returns an
\* error, whatever the vector leg did.
C9_Bm25FailurePropagates ==
    (/\ out # <<>>
     /\ ~NoVectorSearch
     /\ ~trace[1].ok)
    => out[1].err # ""

\* C10: when the vector store or the embedder is absent or the vector store
\* is empty, Search does not call the embedder and, its full-text query
\* succeeding, returns the full-text hits for (q, limit) in their order with
\* score equal to the BM25 score, less the ids missing from the Catalog.
C10_NoVectorsIsBm25Only ==
    (out # <<>> /\ NoVectorSearch)
    => /\ Called("embed") = {}
       /\ Called("vectors") = {}
       /\ trace = <<BackendCall("fti", out[1].q, out[1].limit, out[1].err = "")>>
       /\ out[1].err = "" => IsBm25Result(out[1].results, out[1].q, out[1].limit)

\* a searcher with vectors and embedder but an empty store answered from the
\* full-text index, leaving out a hit the Catalog does not resolve
C10_Witness ==
    /\ out # <<>>
    /\ hybrid.vectors
    /\ hybrid.embedder
    /\ vecRanking = <<>>
    /\ out[1].err = ""
    /\ out[1].limit = 2
    /\ Len(out[1].results) = 1
    /\ Len(FtiHits(out[1].q)) >= 2

\* the last Search fused the two legs' answers
Fused ==
    /\ out # <<>>
    /\ ~NoVectorSearch
    /\ out[1].err = ""
    /\ \A i \in Called("embed") : trace[i].ok

\* C11: Search(q, k) returns at most k results, and every returned document
\* id is one the Catalog resolves.
C11_AtMostLimitResolved ==
    out # <<>>
    => /\ Len(out[1].results) <= out[1].limit
       /\ \A i \in 1..Len(out[1].results) : out[1].results[i].id \in catalog

\* a fused ranking longer than the limit, with an unresolved document in its
\* top limit entries, gave a result all the same
C11_Witness ==
    /\ Fused
    /\ Len(out[1].fused) > out[1].limit
    /\ \E i \in 1..out[1].limit : out[1].fused[i].id \notin catalog
    /\ Len(out[1].results) = 1

\* C12 as stated: the scores of the results of Search are strictly descending.
C12_StrictlyDescending ==
    out # <<>>
    => \A i \in 1..Len(out[1].results) - 1 :
         out[1].results[i].score > out[1].results[i + 1].score

\* C12 amended: the scores of the results of Search never ascend; two
\* neighbours may have the same score.
C12_NeverAscending ==
    out # <<>>
    => \A i \in 1..Len(out[1].results) - 1 :
         out[1].results[i].score >= out[1].results[i + 1].score

\* a fused search returned two results of the same score
C12_Witness ==
    /\ Fused
    /\ Len(out[1].results) = 2
    /\ out[1].results[1].score = out[1].results[2].score
    /\ out[1].results[1].score > 0

\* the lists the last Search fused
FusedB == bleveSearch(out[1].q, out[1].limit * 2)
FusedV == vectorsSearch(out[1].limit * 2)

\* the sum of 1/(k + rank + 1) over the vector results of one document
VectorUnits(id) ==
    SumUnits({r \in 1..Len(FusedV) : extractDocID(FusedV[r].key) = id})

\* C13 as stated: with weight 0 the top fused document is the rank-0 BM25
\* document, with weight 1 it is the document of the rank-0 vector result,
\* whatever the two lists are.
C13_ExtremeWeightTop ==
    Fused
    => /\ (hybrid.weight = 0 /\ FusedB # <<>>)
          => out[1].fused[1].id = FusedB[1].id
       /\ (hybrid.weight = WeightDen /\ FusedV # <<>>)
          => out[1].fused[1].id = extractDocID(FusedV[1].key)

\* C13 amended: with weight 0 the top fused document is the rank-0 BM25
\* document; with weight 1 it is a document whose vector results have the
\* greatest sum of 1/(61 + rank), which is the document of the rank-0 vector
\* result whenever no document has more than one result in the vector list.
C13_ExtremeWeightTopBySum ==
    Fused
    => /\ (hybrid.weight = 0 /\ FusedB # <<>>)
          => out[1].fused[1].id = FusedB[1].id
       /\ (hybrid.weight = WeightDen /\ FusedV # <<>>)
          => /\ \A i \in 1..Len(out[1].fused) :
                  VectorUnits(out[1].fused[1].id) >= VectorUnits(out[1].fused[i].id)
             /\ (\A r1, r2 \in 1..Len(FusedV) :
                   r1 # r2 => extractDocID(FusedV[r1].key) # extractDocID(FusedV[r2].key))
                => out[1].fused[1].id = extractDocID(FusedV[1].key)

\* with weight 1 the rank-0 vector result's document came out on top of
\* another document that leads the BM25 list
C13_Witness ==
    /\ Fused
    /\ hybrid.weight = WeightDen
    /\ Len(FusedV) >= 2
    /\ FusedB # <<>>
    /\ FusedB[1].id # extractDocID(FusedV[1].key)
    /\ out[1].fused[1].id = extractDocID(FusedV[1].key)
    /\ \A r1, r2 \in 1..Len(FusedV) :
         r1 # r2 => extractDocID(FusedV[r1].key) # extractDocID(FusedV[r2].key)

\* 1/(k + rank + 1) for the document's place in the BM25 list, 0 without one
Bm25Units(id) ==
    IF \E r \in 1..Len(FusedB) : FusedB[r].id = id
    THEN RankUnit(CHOOSE r \in 1..Len(FusedB) : FusedB[r].id = id)
    ELSE 0

\* the documents of the two lists
FusedIds ==
    {FusedB[r].id : r \in 1..Len(FusedB)}
      \cup {extractDocID(FusedV[r].key) : r \in 1..Len(FusedV)}

\* C32: the fused ranking has exactly one entry per document of the BM25
\* list or (by the chunk key up to its last colon) of the vector list, and the
\* entry's score is (1 - w)/(61 + r) for the document's BM25 rank r, if any,
\* plus w/(61 + r') summed over the vector ranks r' of the document's chunks.
C32_OneEntryPerDocument ==
    Fused
    => /\ \A i \in 1..Len(out[1].fused) : out[1].fused[i].id \in FusedIds
       /\ \A id \in FusedIds :
            Cardinality({i \in 1..Len(out[1].fused) : out[1].fused[i].id = id}) = 1
       /\ \A i \in 1..Len(out[1].fused) :
            out[1].fused[i].rrfScore
              = (WeightDen - hybrid.weight) * Bm25Units(out[1].fused[i].id)
                  + hybrid.weight * VectorUnits(out[1].fused[i].id)

\* with a weight strictly between 0 and 1, a document with a BM25 hit and two
\* chunks in the vector list was fused with a document known to one list only
C32_Witness ==
    /\ Fused
    /\ hybrid.weight > 0
    /\ hybrid.weight < WeightDen
    /\ Len(out[1].fused) >= 2
    /\ \E id \in FusedIds :
         /\ Bm25Units(id) > 0
         /\ Cardinality({r \in 1..Len(FusedV) : extractDocID(FusedV[r].key) = id}) = 2
    /\ \E id \in FusedIds : Bm25Units(id) = 0 \/ VectorUnits(id) = 0

(***************************************************************************)
(* Properties of the embedding gateway.                                    *)
(***************************************************************************)
\* C14: of two successive Embed(t) calls on the cached embedder the first of
\* which returned a vector, the two together ask the backend at most once and
\* the second returns the same vector, element for element.
C14_SecondEmbedIsCached ==
    \A i \in 1..Len(elog) - 1 :
        (/\ elog[i].op = "embed"
         /\ elog[i + 1].op = "embed"
         /\ elog[i].texts = elog[i + 1].texts
         /\ elog[i].err = "")
        => /\ Len(elog[i].request) + Len(elog[i + 1].request) <= 1
           /\ elog[i + 1].err = ""
           /\ Len(elog[i + 1].vecs[1]) = Len(elog[i].vecs[1])
           /\ \A n \in 1..Len(elog[i].vecs[1]) :
                elog[i + 1].vecs[1][n] = elog[i].vecs[1][n]

\* Embed(t) asked the backend and got a two-element vector, the next Embed(t)
\* did not ask
C14_Witness ==
    /\ Len(elog) >= 2
    /\ elog[1].op = "embed"
    /\ elog[2].op = "embed"
    /\ elog[1].texts = elog[2].texts
    /\ Len(elog[1].request) = 1
    /\ elog[1].err = ""
    /\ Len(elog[1].vecs[1]) = 2
    /\ elog[2].request = <<>>

\* C15: a successful EmbedBatch(texts) on the cached embedder returns one
\* non-empty vector per input at the input's position (the cached vector for a
\* cached text, the backend's answer for an uncached one), having asked the
\* backend at most once, for exactly the uncached texts in input order, and
\* not at all when every text is cached or there is no text.
C15_BatchFillsInPlace ==
    [][(/\ Len(elog') = Len(elog) + 1
        /\ elog'[Len(elog')].op = "batch"
        /\ elog'[Len(elog')].err = "")
       => LET e == elog'[Len(elog')]
              misses == {i \in 1..Len(e.texts) : contentHash(e.texts[i]) \notin DOMAIN ecache}
              nth(i) == Cardinality({j \in misses : j <= i})
          IN  /\ Len(e.vecs) = Len(e.texts)
              /\ \A i \in 1..Len(e.vecs) : e.vecs[i] # <<>>
              /\ Len(e.request) <= 1
              /\ misses = {} <=> e.request = <<>>
              /\ misses # {}
                 => /\ Len(e.request[1].texts) = Cardinality(misses)
                    /\ \A i \in misses :
                         /\ e.request[1].texts[nth(i)] = e.texts[i]
                         /\ e.vecs[i] = e.request[1].answer.embeddings[nth(i)]
              /\ \A i \in 1..Len(e.texts) \ misses :
                   e.vecs[i] = decodeEmbedding(ecache[contentHash(e.texts[i])])
      ]_vars

\* a batch of a cached and an uncached text asked the backend for the second
\* text only
C15_Witness ==
    /\ Len(elog) >= 2
    /\ elog[Len(elog)].op = "batch"
    /\ elog[Len(elog)].err = ""
    /\ Len(elog[Len(elog)].texts) = 2
    /\ Len(elog[Len(elog)].request) = 1
    /\ elog[Len(elog)].request[1].texts = <<elog[Len(elog)].texts[2]>>
    /\ elog[Len(elog)].vecs[1] # elog[Len(elog)].vecs[2]

\* the calls so far that got a full answer from the backend
Answered == {i \in 1..Len(elog) : elog[i].request # <<>> /\ elog[i].err = ""}

\* C18: Dimensions() is 0 until the first call the backend answers, from then
\* on it is the length of the first vector of that answer, whatever later
\* calls return.
C18_DimensionsFrozen ==
    LET first == CHOOSE i \in Answered : \A j \in Answered : i <= j
        frozen == Len(elog[first].request[1].answer.embeddings[1])
    IN  /\ Answered = {} => dimensions = 0
        /\ Answered # {} => dimensions = frozen
        /\ \A i \in 1..Len(elog) :
             elog[i].dimensions = IF Answered # {} /\ first <= i THEN frozen ELSE 0

\* an answer of one-element vectors, then an answer of two-element vectors:
\* the dimension stayed 1
C18_Witness ==
    /\ Answered = {1, 2}
    /\ Len(elog[1].request[1].answer.embeddings[1]) = 1
    /\ Len(elog[2].request[1].answer.embeddings[1]) = 2
    /\ dimensions = 1
(***************************************************************************)
(* Properties of the VectorStore.                                          *)
(***************************************************************************)

SameKeys(g, h) == graphKeys(g) = graphKeys(h) /\ VectorLen(g) = VectorLen(h)

C20_DispatchOnlySettled ==
    dispatched # <<>> =>
        /\ dispatched[1].age >= debounceTime
        /\ ~dispatched[1].queued

\* C20 as it holds: processPending pulls no path whose most recent event is
\* less than the debounce window old, so none between two events of a burst;
\* a pulled path leaves pending at the pull, and each pulled path is
\* dispatched once, in the order of the pull.
C20_PullOnlySettled ==
    [][/\ (ready = <<>> /\ ready' # <<>>) =>
            \A i \in 1..Len(ready') :
                /\ clock - lastEvent[ready'[i]] >= debounceTime
                /\ ready'[i] \notin DOMAIN pending'
                /\ \A j \in 1..Len(ready') : ready'[j] = ready'[i] => j = i
       /\ dispatched' # dispatched =>
            /\ ready # <<>>
            /\ dispatched'[1].path = Head(ready)
            /\ ready' = Tail(ready)]_vars

\* a path was pulled after a burst of events on it
C20_Witness ==
    /\ ready # <<>>
    /\ inBurst[ready[1]]
    /\ clock - lastEvent[ready[1]] >= debounceTime

\* C33: the watcher dispatches a pulled path to remove_file when the path
\* does not exist at the time of the dispatch and to index_file when it
\* does, whatever events were recorded for it.
C33_DispatchByExistence ==
    [][(ready # <<>> /\ ready' = Tail(ready))
       => /\ dispatched'[1].path = Head(ready)
          /\ dispatched'[1].op = IF fs[Head(ready)].exists THEN "index_file"
                                  ELSE "remove_file"
          /\ ret'[1].op = dispatched'[1].op
          /\ ret'[1].path = Head(ready)
      ]_vars

\* a path for which a Remove event was recorded, and whose file is on disk
\* again, was dispatched to index_file
C33_Witness ==
    /\ dispatched # <<>>
    /\ dispatched[1].removed
    /\ dispatched[1].op = "index_file"
    /\ fs[dispatched[1].path].exists
    /\ Returned("index_file")

\* C34: once the context is cancelled Start closes the subscription and
\* returns and debounceLoop returns, and a debounceLoop that has returned
\* picks and dispatches nothing more.
C34_CancelStops ==
    /\ ctxDone ~> (/\ startPc = "returned"
                   /\ subscription = "closed"
                   /\ loopPc = "returned")
    /\ [][loopPc = "returned"
          => /\ loopPc' = "returned"
             /\ ready' = ready
             /\ dispatched' = dispatched
             /\ DOMAIN pending \subseteq DOMAIN pending']_vars

\* the watcher has dispatched a path, the context was cancelled and both
\* goroutines have returned
C34_Witness ==
    /\ ctxDone
    /\ dispatched # <<>>
    /\ startPc = "returned"
    /\ subscription = "closed"
    /\ wdone
    /\ loopPc = "returned"

C21_ParseDeterministic ==
    [][(pparsed # <<>> /\ pparsed' # <<>> /\ pquery' = pquery) => pparsed' = pparsed]_vars

RECURSIVE Count(_, _)
\* the occurrences of the piece in the string, whatever its letter case
Count(s, piece) ==
    IF s = <<>> THEN 0
    ELSE (IF ToLower(<<s[1]>>) = <<piece>> THEN 1 ELSE 0) + Count(Tail(s), piece)

\* C22: the SearchTerms of a query classified as summarize have the
\* recognised prefix stripped: they hold one "summarize" less than the query.
C22_SummarizePrefixStripped ==
    (pparsed # <<>> /\ pparsed[1].Intent = "summarize") =>
        Count(pparsed[1].SearchTerms, "summarize") = Count(pquery, "summarize") - 1

\* the time phrases in the order of the specification's list
TimePhrases ==
    << <<"today">>, <<"yesterday">>, <<"this week">>, <<"last week">>,
       <<"this month">>, <<"last month">>, <<"last year">> >>

\* C23: TimeFilter is the first phrase of the list that the lower-cased
\* query contains, and one occurrence of it is gone from SearchTerms,
\* whatever the letter case of the query.
C23_TimeFilterFirstAndRemoved ==
    pparsed # <<>> =>
        LET lower == ToLower(TrimSpace(pquery))
            first == FirstKeyword(TimePhrases, lower)
        IN  /\ pparsed[1].TimeFilter = IF first = <<>> THEN <<>> ELSE first[1]
            /\ first # <<>> =>
                 Count(pparsed[1].SearchTerms, first[1][1]) = Count(pquery, first[1][1]) - 1

(***************************************************************************)
(* Properties of the catalog's collections and tags.                       *)
(***************************************************************************)

\* the names of the collections but the one of this id
OtherNames(rows, id) == {r.name : r \in {q \in rows : q.id # id}}

\* C24: no two collections have the same name; a create or a rename that
\* would duplicate a name returns ErrCollectionExists and changes nothing.
C24_UniqueCollectionNames ==
    /\ \A r1, r2 \in collections : r1.name = r2.name => r1 = r2
    /\ dbret # <<>> =>
         LET r == dbret[1]
             dup == \/ /\ r.op = "CreateCollection"
                       /\ r.args[2] \in {q.name : q \in r.before.collections}
                    \/ /\ r.op = "RenameCollection"
                       /\ r.args[1] \in {q.id : q \in r.before.collections}
                       /\ r.args[2] \in OtherNames(r.before.collections, r.args[1])
         IN  dup => r.err = "ErrCollectionExists" /\ collections = r.before.collections

\* a rename to the name of another collection was refused
C24_Witness ==
    /\ dbret # <<>>
    /\ dbret[1].op = "RenameCollection"
    /\ dbret[1].args[2] \in OtherNames(dbret[1].before.collections, dbret[1].args[1])
    /\ dbret[1].args[1] \in {q.id : q \in collections}
    /\ dbret[1].err = "ErrCollectionExists"

\* C25: RemoveTag deletes the row of the document and the tag only when the
\* tag is manual; for an auto tag and for an absent one it returns
\* ErrNotFound and the tags stay as they were.
C25_OnlyManualTagsRemoved ==
    (dbret # <<>> /\ dbret[1].op = "RemoveTag") =>
        LET r == dbret[1]
            row == [doc |-> r.args[1], tag |-> r.args[2], manual |-> TRUE]
        IN  IF row \in r.before.tags
            THEN r.err = "" /\ tags = r.before.tags \ {row}
            ELSE r.err = "ErrNotFound" /\ tags = r.before.tags

\* RemoveTag was called on an auto tag
C25_Witness ==
    /\ dbret # <<>>
    /\ dbret[1].op = "RemoveTag"
    /\ [doc |-> dbret[1].args[1], tag |-> dbret[1].args[2], manual |-> FALSE] \in tags
    /\ dbret[1].err = "ErrNotFound"

(***************************************************************************)
(* Properties of the streaming call.                                       *)
(***************************************************************************)

\* C26: the streaming call hands each frame to the sink once, in the order
\* of the frames, with the frame's token and done flag; it returns success
\* exactly when the stream ended with a frame whose done is true, and a
\* typed error otherwise.
C26_SinkPerFrameAndDone ==
    /\ Len(sunk) <= Len(frames)
    /\ \A i \in 1..Len(sunk) :
         sunk[i].token = frames[i].response /\ sunk[i].done = frames[i].done
    /\ gret \notin {"", "idle"} =>
         /\ Len(sunk) = Len(frames)
         /\ gret = "ok" <=> (frames # <<>> /\ frames[Len(frames)].done)
         /\ gret # "ok" => gret = "ErrStreamIncomplete"

\* a stream of three frames that ends with done = true was handed to the sink
C26_Witness ==
    /\ gret = "ok"
    /\ Len(sunk) = 3
    /\ sunk[3].done

(***************************************************************************)
(* Properties of the chunker.                                              *)
(***************************************************************************)

\* C27: every chunk Split returns has 0 <= StartPos < EndPos <= len(T) and
\* its Content is T[StartPos:EndPos] with the whitespace at its ends
\* trimmed, with and without overlap.
C27_ChunkSpans ==
    cret # <<>> =>
        /\ ~cret[1].panic
        /\ \A i \in 1..Len(cret[1].chunks) :
             LET c == cret[1].chunks[i]
             IN  /\ 0 <= c.StartPos
                 /\ c.StartPos < c.EndPos
                 /\ c.EndPos <= Len(ctext)
                 /\ c.Content = TrimSpace(Slice(ctext, c.StartPos, c.EndPos))


\* C28: the errors field of the stats index_all returns counts every error
\* delivered on a source's scan error stream as well as every file whose
\* parse, Catalog write or FTI write failed in a worker.
C28_ScanErrorsCounted ==
    LET counted == {j \in 1..Len(events) :
                      /\ events[j].kind = "error"
                      /\ events[j].what \in PipelineErrors \cup {"scan"}}
    IN  (Returned("index_all") /\ ~cancelled)
        => ret[1].stats.errors = Cardinality(counted)


\* C29: a cached Embed or EmbedBatch call during which the backend fails
\* returns an error and no vector, and the cache holds exactly the entries it
\* held before the call.
C29_FailureLeavesCache ==
    [][(/\ Len(elog') = Len(elog) + 1
        /\ elog'[Len(elog')].request # <<>>
        /\ LET a == elog'[Len(elog')].request[1].answer
               n == Len(elog'[Len(elog')].request[1].texts)
           IN  ~a.ok \/ Len(a.embeddings) # n)
       => /\ elog'[Len(elog')].err # ""
          /\ elog'[Len(elog')].vecs = <<>>
          /\ ecache' = ecache
      ]_vars

\* a batch of a cached and an uncached text failed at the backend and the
\* cache still holds the one entry it held
C29_Witness ==
    /\ Len(elog) = 2
    /\ elog[1].op = "embed"
    /\ elog[1].err = ""
    /\ elog[2].op = "batch"
    /\ Len(elog[2].texts) = 2
    /\ elog[2].request # <<>>
    /\ ~elog[2].request[1].answer.ok
    /\ elog[2].err = "backend"
    /\ DOMAIN ecache = {contentHash(elog[1].texts[1])}


(***************************************************************************)
(* Properties of the progress reporter's log.                              *)
(***************************************************************************)
\* the places of a source's events of the given kinds in the log
EventsOf(s, kinds) ==
    {j \in 1..Len(events) : events[j].source = s /\ events[j].kind \in kinds}

\* the per-file events of a source: OnProgress and the workers' OnError
FileEventsOf(s) ==
    {j \in EventsOf(s, {"progress", "error"}) : events[j].path # ""}

\* C35: in the log of an index_all run, a source's OnStart comes before each
\* of its OnProgress and per-file OnError events and carries the number of
\* scanned files, its OnComplete comes after all of them, at most once, and is
\* emitted when every worker has joined; a run that returns without
\* cancellation has emitted exactly one OnStart and one OnComplete per source.
C35_StartProgressComplete ==
    /\ [](pc # "idle" /\ ~Returned("index_file") /\ ~Returned("remove_file")
          => \A s \in {Sources[i] : i \in 1..Len(Sources)} :
               /\ Cardinality(EventsOf(s, {"start"})) <= 1
               /\ Cardinality(EventsOf(s, {"complete"})) <= 1
               /\ \A j \in FileEventsOf(s) :
                    /\ \E i \in EventsOf(s, {"start"}) : i < j
                    /\ \A c \in EventsOf(s, {"complete"}) : j < c
               /\ (s = Sources[srcIdx] /\ pc \in {"feed", "wait", "cwait"})
                  => \A i \in EventsOf(s, {"start"}) : events[i].total = Len(allFiles)
               /\ (Returned("index_all") /\ ret[1].err = "")
                  => /\ Cardinality(EventsOf(s, {"start"})) = 1
                     /\ Cardinality(EventsOf(s, {"complete"})) = 1)
    /\ [][(/\ Len(events') = Len(events) + 1
           /\ events'[Len(events')].kind = "complete")
          => /\ \A w \in WorkerIds : wexit[w]
             /\ wfile = [w \in WorkerIds |-> <<>>]]_vars

\* a run over two markdown files, one of which failed, has returned: the
\* source's log is OnStart, two OnProgress with an OnError, OnComplete
C35_Witness ==
    /\ Returned("index_all")
    /\ ret[1].err = ""
    /\ Cardinality(EventsOf("markdown", {"progress"})) = 2
    /\ Cardinality(FileEventsOf("markdown")) = 3
    /\ Cardinality(EventsOf("markdown", {"complete"})) = 1

C37_ScanTerminates == <>(scanClosed /\ scanPc = "done")

(***************************************************************************)
(* Properties of the vector store's mutex.                                 *)
(***************************************************************************)
\* every call inside a method of writers is alone and holds the write lock;
\* every call inside a method of readers holds a read lock and has only
\* calls of readers beside it
LockDiscipline(writers, readers) ==
    \A t \in Callers :
        /\ vcall[t] # Idle => vcall[t].op \in writers \cup readers
        /\ vcall[t].op \in writers
           => /\ mu.writer
              /\ \A u \in Callers \ {t} : vcall[u] = Idle
        /\ vcall[t].op \in readers
           => /\ ~mu.writer
              /\ mu.readers = Cardinality({u \in Callers : vcall[u] # Idle})
              /\ \A u \in Callers \ {t} : vcall[u] # Idle => vcall[u].op \in readers

\* C30, as stated: add, add_batch, delete and save run under the write lock
\* and overlap with no other call; search and len run under the read lock and
\* overlap only with each other.
C30_SaveUnderWriteLock ==
    LockDiscipline({"Add", "AddBatch", "Delete", "Save"}, {"Search", "Len"})

\* C30, amended: add, add_batch and delete run under the write lock and
\* overlap with no other call; search, len and save run under the read lock
\* and overlap only with one another.
C30_SaveUnderReadLock ==
    LockDiscipline({"Add", "AddBatch", "Delete"}, {"Search", "Len", "Save"})

\* a save and a search are inside at the same time on a store that holds a
\* vector
C30_Witness ==
    /\ VectorLen(graph) > 0
    /\ mu.readers = 2
    /\ \E t, u \in Callers : vcall[t].op = "Save" /\ vcall[u].op = "Search"


(***************************************************************************)
(* Properties of the vector store after Close.                             *)
(***************************************************************************)
\* C31: a close writes the file a save would write and leaves the graph as
\* it is, and an add, add_batch or delete issued on the closed store does not
\* change its contents.
C31_ClosedIsReadOnly ==
    [][/\ vop' = "Close" => disk' = <<saved(graph)>> /\ graph' = graph
       /\ (vop = "Close" /\ vop' \in {"Add", "AddBatch", "Delete"}) => graph' = graph
      ]_vars

(***************************************************************************)
(* Properties of the worker pool.                                          *)
(***************************************************************************)
\* the workers that hold a file they received and have not yet processed
Holding == {w \in WorkerIds : wfile[w] # <<>>}

ScannedPaths(s) == {ScanSource(fs, s)[k].path : k \in 1..Len(ScanSource(fs, s))}

C40_FtiWithinCatalog == fti \subseteq DOMAIN docs

\* remove_file has failed between its two deletions while another document
\* is fully indexed: one Catalog row without a full-text entry, one with
C40_Witness ==
    /\ Returned("remove_file")
    /\ ret[1].err = "database"
    /\ IdOf(ret[1].path) \in DOMAIN docs \ fti
    /\ fti # {}
    /\ \E p \in MarkdownPaths : before[1].fti = fti \cup {IdOf(p)} /\ IdOf(p) \notin fti

====
